---- MODULE Spec2Model ----
(***************************************************************************)
(* Model of the XPT2046 resistive touch driver (xpt2046.c / xpt2046.h):    *)
(* pressure gate, median filter, variance gate, calibration mapper, jump   *)
(* rejector, moving-average smoother and the state kept across reads.      *)
(* C integer widths are kept: int16_t values go through ToInt16, uint8_t   *)
(* counters through ToUint8, and the uint32_t scaling of the mapper is     *)
(* computed modulo 2^32 without ever forming a number above 2^31 - 1.      *)
(***************************************************************************)
EXTENDS Integers, Sequences, FiniteSets, TLC

(***************************************************************************)
(* Program constants                                                       *)
(***************************************************************************)
XPT2046_X_MIN == 160
XPT2046_Y_MIN == 215
XPT2046_X_MAX == 3870
XPT2046_Y_MAX == 3910
XPT2046_X_INV == 0
XPT2046_Y_INV == 0
XPT2046_XY_SWAP == 0
XPT2046_TOUCH_THRESHOLD == 500
XPT2046_READ_SAMPLES == 7
XPT2046_AVG_SAMPLES == 10
XPT2046_JUMP_THRESHOLD == 80
XPT2046_MAX_INVALID_SAMPLES == 3
ST7789_WIDTH == 320
ST7789_HEIGHT == 240
\* command bytes
CMD_X_READ == 144
CMD_Y_READ == 208
CMD_Z1_READ == 176
CMD_Z2_READ == 192
\* z1 floor of the pressure gate (literal 50 in XPT2046_IsPressed)
Z1_MIN == 50
\* ceiling of the variance gate (literal 10000 in XPT2046_ReadFiltered)
VARIANCE_CEILING == 10000

\* offset of the visible area in the controller's RAM (240x320 panel)
ST7789_X_SHIFT == 0
ST7789_Y_SHIFT == 0
\* pixels per block of the fill loop (literal 64, a 128-byte buffer)
FILL_BLOCK_PIXELS == 64

(***************************************************************************)
(* Bounds of the model                                                     *)
(***************************************************************************)
\* number of public calls explored from power-up
MaxOps == 5
\* number of public calls explored when the pressure gate is studied
MaxGateOps == 2
\* number of public calls explored when the calibration mapper is studied
MaxMapOps == 3

\* calls in a run of the smoother: enough to fill the history past its capacity
MaxSmoothOps == 12

\* calls in a run that interleaves the diagnostic probes with read()
MaxProbeOps == 4

\* calls in a run on the bus with transport failures and an IRQ line
MaxBusOps == 2

\* serial reads made before two read() invocations overlap
MaxRaceWarm == 9

\* reads in a run of noisy batches: enough to take the uint8_t invalid_count
\* through all of its values
MaxNoiseOps == 258

(***************************************************************************)
(* C integer conversions                                                   *)
(***************************************************************************)
\* conversion of an int to int16_t (two's complement wrap, as gcc does)
ToInt16(v) == LET m == v % 65536 IN IF m >= 32768 THEN m - 65536 ELSE m

\* conversion of an int to uint8_t
ToUint8(v) == v % 256

\* conversion of an int to uint16_t
ToUint16(v) == v % 65536

\* C integer division (truncates toward zero), divisor > 0
TruncDiv(a, b) == IF a >= 0 THEN a \div b ELSE -((-a) \div b)

\* a zeroed averaging buffer (memset(avg_buf, 0, sizeof(avg_buf)))
ZeroBuf == [i \in 0..(XPT2046_AVG_SAMPLES - 1) |-> 0]

(***************************************************************************)
(* Raw sampler: the 16-bit response of one exchange, decoded               *)
(***************************************************************************)
\* XPT2046_SendCommand(cmd) >> 3 : the two response bytes form an int16_t,
\* which is shifted right arithmetically by 3
Sample12(resp) == ToInt16(resp) \div 8

(***************************************************************************)
(* Transport: one exchange is a record [status, frame]; status "ok" (both  *)
(* HAL calls succeeded and frame was received), "error" (a HAL call         *)
(* returned an error status) or "stall" (a HAL call never returns, its      *)
(* timeout being HAL_MAX_DELAY)                                            *)
(***************************************************************************)
OkEx(frame) == [status |-> "ok", frame |-> frame]

OkBatch(resp) == [i \in DOMAIN resp |-> OkEx(resp[i])]

\* the value XPT2046_SendCommand returns: the HAL status is not looked at and
\* rx_data starts as {0}, so a failed exchange yields the frame 0
XPT2046_SendCommand(ex) == IF ex.status = "ok" THEN ex.frame ELSE 0

\* the record of an exchange on the bus
Issued(cmd, ex) == [cmd |-> cmd, status |-> ex.status]

Returned(exchanges) ==
    \A i \in 1..Len(exchanges) : exchanges[i].status # "stall"

\* the exchanges that take place: none is issued after one that stalls
UpToStall(exchanges) ==
    IF Returned(exchanges) THEN exchanges
    ELSE SubSeq(exchanges, 1,
                CHOOSE i \in 1..Len(exchanges) :
                    /\ exchanges[i].status = "stall"
                    /\ \A j \in 1..(i - 1) : exchanges[j].status # "stall")

\* a gate that samples the plates whatever the interrupt line says
GateBlocked_ignoresLine(irq_def, line_low) == FALSE

\* #ifdef XPT2046_IRQ_PIN: if (!IS_IRQ_LOW()) return false;
GateBlocked(irq_def, line_low) == irq_def /\ ~line_low

\* the exchanges of XPT2046_IsPressed: Z1 then Z2
GateBus(z1ex, z2ex) ==
    <<Issued(CMD_Z1_READ, z1ex), Issued(CMD_Z2_READ, z2ex)>>

\* a sampling loop that reads Y before X
BatchCmd_yFirst(k) == IF k % 2 = 1 THEN CMD_Y_READ ELSE CMD_X_READ

\* the command of the k-th exchange (k = 1, 2, ...) of a sampling loop: each
\* iteration reads X, then Y
BatchCmd(k) == IF k % 2 = 1 THEN CMD_X_READ ELSE CMD_Y_READ

\* the exchanges of a sampling loop of n iterations; xex, yex: the X and Y
\* exchanges, indexed from 0
SampleBus(xex, yex, n) ==
    [k \in 1..(2 * n) |->
        Issued(BatchCmd(k), IF k % 2 = 1 THEN xex[(k - 1) \div 2]
                                         ELSE yex[(k - 1) \div 2])]

(***************************************************************************)
(* Pressure gate                                                           *)
(***************************************************************************)
\* a gate whose threshold is inclusive (>=)
IsPressed_inclusive(z1resp, z2resp) ==
    LET z1 == Sample12(z1resp)
        z2 == Sample12(z2resp)
        z  == ToInt16(z2 - z1)
    IN  IF z1 < Z1_MIN THEN FALSE ELSE z >= XPT2046_TOUCH_THRESHOLD

IsPressed(z1resp, z2resp) ==
    LET z1 == Sample12(z1resp)
        z2 == Sample12(z2resp)
        z  == ToInt16(z2 - z1)
    IN  IF z1 < Z1_MIN THEN FALSE ELSE z > XPT2046_TOUCH_THRESHOLD

(***************************************************************************)
(* Median filter: bubble sort of a copy, middle element                    *)
(***************************************************************************)
RECURSIVE BubbleInner(_, _, _)
BubbleInner(temp, j, lim) ==
    IF j >= lim THEN temp
    ELSE BubbleInner(IF temp[j] > temp[j + 1]
                     THEN [temp EXCEPT ![j] = temp[j + 1], ![j + 1] = temp[j]]
                     ELSE temp,
                     j + 1, lim)

RECURSIVE BubbleOuter(_, _, _)
BubbleOuter(temp, i, size) ==
    IF i >= size - 1 THEN temp
    ELSE BubbleOuter(BubbleInner(temp, 0, size - i - 1), i + 1, size)

\* a median that returns the element below the middle
median_filter_lowerMiddle(data, size) ==
    BubbleOuter(data, 0, size)[size \div 2 - 1]

median_filter(data, size) == BubbleOuter(data, 0, size)[size \div 2]

(***************************************************************************)
(* Variance gate (XPT2046_ReadFiltered)                                    *)
(***************************************************************************)
\* a sum of squares taken without subtracting the median
RECURSIVE SumSqDiff_noCenter(_, _, _)
SumSqDiff_noCenter(samples, med, n) ==
    IF n = 0 THEN 0
    ELSE SumSqDiff_noCenter(samples, med, n - 1)
         + samples[n - 1] * samples[n - 1]

RECURSIVE SumSqDiff(_, _, _)
SumSqDiff(samples, med, n) ==
    IF n = 0 THEN 0
    ELSE LET diff == ToInt16(samples[n - 1] - med)
         IN  SumSqDiff(samples, med, n - 1) + diff * diff

\* xresp, yresp: the responses of the 7 X and 7 Y exchanges, indexed 0..6
XPT2046_ReadFiltered(xresp, yresp) ==
    LET x_samples == [i \in 0..(XPT2046_READ_SAMPLES - 1) |-> Sample12(xresp[i])]
        y_samples == [i \in 0..(XPT2046_READ_SAMPLES - 1) |-> Sample12(yresp[i])]
        mx == median_filter(x_samples, XPT2046_READ_SAMPLES)
        my == median_filter(y_samples, XPT2046_READ_SAMPLES)
        std_dev_x == ToInt16(SumSqDiff(x_samples, mx, XPT2046_READ_SAMPLES)
                             \div XPT2046_READ_SAMPLES)
        std_dev_y == ToInt16(SumSqDiff(y_samples, my, XPT2046_READ_SAMPLES)
                             \div XPT2046_READ_SAMPLES)
    IN  [ok |-> ~(std_dev_x > VARIANCE_CEILING \/ std_dev_y > VARIANCE_CEILING),
         x  |-> mx,
         y  |-> my,
         var_x |-> SumSqDiff(x_samples, mx, XPT2046_READ_SAMPLES)
                   \div XPT2046_READ_SAMPLES,
         var_y |-> SumSqDiff(y_samples, my, XPT2046_READ_SAMPLES)
                   \div XPT2046_READ_SAMPLES]

(***************************************************************************)
(* Calibration mapper (XPT2046_ApplyCalibration)                           *)
(***************************************************************************)
\* if (v < lo) v = lo;  if (v > hi) v = hi;
ClampRaw(v, lo, hi) ==
    LET a == IF v < lo THEN lo ELSE v
    IN  IF a > hi THEN hi ELSE a

\* (2^32 - m) / d for 1 <= m < 2^31 and d >= 1, modulo 2^16, computed from
\* 2^32 - m = (2^31 - 1) + (2^31 - m) + 1
WrappedQuot16(m, d) ==
    LET a == 2147483647
        b == a - (m - 1)
    IN  ((((a \div d) % 65536) + ((b \div d) % 65536))
         + (((a % d) + (b % d) + 1) \div d)) % 65536

\* v = (uint32_t)(v) * dim / range, stored back into an int16_t.
\* v: int16_t, dim: uint16_t, range: int (max - min).  ubq: the low 16 bits
\* of the quotient the hardware delivers for a division by zero.
ScaleAxis(v, dim, range, ubq) ==
    IF range = 0 THEN ToInt16(ubq)
    ELSE IF v >= 0
         THEN IF range > 0 THEN ToInt16((v * dim) \div range) ELSE 0
         ELSE LET m == (-v) * dim
              IN  IF m = 0 THEN 0
                  ELSE IF range > 0 THEN ToInt16(WrappedQuot16(m, range))
                  ELSE IF m <= -range THEN 1 ELSE 0

\* if (v < 0) v = 0;  if (v >= (int16_t)dim) v = dim - 1;
ClampPixel(v, dim) ==
    LET a == IF v < 0 THEN 0 ELSE v
    IN  IF a >= ToInt16(dim) THEN ToInt16(dim - 1) ELSE a

\* a mapper that forgets to subtract the profile minimum
XPT2046_ApplyCalibration_noOffset(x, y, cal, width, height, ubqx, ubqy) ==
    LET cx  == ToInt16(ClampRaw(x, cal.x_min, cal.x_max))
        cy  == ToInt16(ClampRaw(y, cal.y_min, cal.y_max))
        px  == ScaleAxis(cx, width, cal.x_max - cal.x_min, ubqx)
        py  == ScaleAxis(cy, height, cal.y_max - cal.y_min, ubqy)
    IN  [x |-> ClampPixel(px, width),
         y |-> ClampPixel(py, height),
         div_x |-> cal.x_max - cal.x_min,
         div_y |-> cal.y_max - cal.y_min]

XPT2046_ApplyCalibration(x, y, cal, width, height, ubqx, ubqy) ==
    LET sx  == IF XPT2046_XY_SWAP # 0 THEN y ELSE x
        sy  == IF XPT2046_XY_SWAP # 0 THEN x ELSE y
        cx  == ToInt16(ClampRaw(sx, cal.x_min, cal.x_max) - cal.x_min)
        cy  == ToInt16(ClampRaw(sy, cal.y_min, cal.y_max) - cal.y_min)
        px  == ScaleAxis(cx, width, cal.x_max - cal.x_min, ubqx)
        py  == ScaleAxis(cy, height, cal.y_max - cal.y_min, ubqy)
        ix  == IF XPT2046_X_INV # 0 THEN ToInt16(width - 1 - px) ELSE px
        iy  == IF XPT2046_Y_INV # 0 THEN ToInt16(height - 1 - py) ELSE py
    IN  [x |-> ClampPixel(ix, width),
         y |-> ClampPixel(iy, height),
         div_x |-> cal.x_max - cal.x_min,
         div_y |-> cal.y_max - cal.y_min]

(***************************************************************************)
(* Smoother (XPT2046_Average)                                              *)
(***************************************************************************)
\* a sum that reads one entry past the filled part (i <= avg_count)
RECURSIVE SumBuf_inclusive(_, _)
SumBuf_inclusive(buf, n) ==
    IF n = 0 THEN buf[0]
    ELSE SumBuf_inclusive(buf, n - 1)
         + (IF n < XPT2046_AVG_SAMPLES THEN buf[n] ELSE 0)

\* for (i = 0; i < avg_count; i++) sum += buf[i]
RECURSIVE SumBuf(_, _)
SumBuf(buf, n) == IF n = 0 THEN 0 ELSE SumBuf(buf, n - 1) + buf[n - 1]

\* a push that overwrites the newest entry instead of shifting the history
ShiftIn_overwriteFront(buf, v) == [buf EXCEPT ![0] = v]

\* a shift that stops one entry short of the end of the buffer
ShiftIn_stopsShort(buf, v) ==
    [i \in 0..(XPT2046_AVG_SAMPLES - 1) |->
        IF i = 0 THEN v
        ELSE IF i = XPT2046_AVG_SAMPLES - 1 THEN buf[i] ELSE buf[i - 1]]

\* for (i = XPT2046_AVG_SAMPLES - 1; i > 0; i--) buf[i] = buf[i - 1];
\* buf[0] = v
ShiftIn(buf, v) ==
    [i \in 0..(XPT2046_AVG_SAMPLES - 1) |-> IF i = 0 THEN v ELSE buf[i - 1]]

\* a mean taken over the nominal capacity instead of the filled count
AverageDivisor_capacity(count) == XPT2046_AVG_SAMPLES

\* the divisor of the mean: sum / avg_count
AverageDivisor(count) == count

\* st: the filter state; returns the filter state with the point pushed, the
\* smoothed point and the divisor used for the mean
XPT2046_Average(st, x, y) ==
    LET bx  == ShiftIn(st.avg_buf_x, x)
        by  == ShiftIn(st.avg_buf_y, y)
        cnt == IF st.avg_count < XPT2046_AVG_SAMPLES
               THEN ToUint8(st.avg_count + 1) ELSE st.avg_count
        d   == AverageDivisor(cnt)
    IN  [st |-> [st EXCEPT !.avg_buf_x = bx, !.avg_buf_y = by, !.avg_count = cnt],
         x  |-> ToInt16(TruncDiv(SumBuf(bx, cnt), d)),
         y  |-> ToInt16(TruncDiv(SumBuf(by, cnt), d)),
         div |-> d]

(***************************************************************************)
(* Touch state controller (XPT2046_Read) as a function of the filter state *)
(***************************************************************************)
\* a release reset that forgets to clear invalid_count
ReleaseReset_keepsInvalidCount(st) ==
    [st EXCEPT !.avg_count = 0,
               !.avg_buf_x = ZeroBuf,
               !.avg_buf_y = ZeroBuf,
               !.last_valid_x = -1,
               !.last_valid_y = -1]

\* reset done when the pressure gate reports no touch
ReleaseReset(st) ==
    [st EXCEPT !.avg_count = 0,
               !.avg_buf_x = ZeroBuf,
               !.avg_buf_y = ZeroBuf,
               !.last_valid_x = -1,
               !.last_valid_y = -1,
               !.invalid_count = 0]

\* a ceiling test that is off by one (>)
CeilingReached_strict(count) == count > XPT2046_MAX_INVALID_SAMPLES

\* invalid_count >= XPT2046_MAX_INVALID_SAMPLES
CeilingReached(count) == count >= XPT2046_MAX_INVALID_SAMPLES

\* the branch taken when XPT2046_ReadFiltered reports unreliable data
OnUnreliable(st) ==
    LET count == ToUint8(st.invalid_count + 1)
    IN  IF CeilingReached(count)
        THEN [st EXCEPT !.invalid_count = count,
                        !.avg_count = 0,
                        !.last_valid_x = -1,
                        !.last_valid_y = -1]
        ELSE [st EXCEPT !.invalid_count = count]

\* a test that takes the (-1, -1) sentinel for a reference point
HasLastValid_sentinelCounts(st) ==
    st.last_valid_x >= -1 /\ st.last_valid_y >= -1

\* last_valid_x >= 0 && last_valid_y >= 0
HasLastValid(st) == st.last_valid_x >= 0 /\ st.last_valid_y >= 0

\* dx * dx + dy * dy against the last valid point
DistanceSq(st, x, y) ==
    LET dx == x - st.last_valid_x
        dy == y - st.last_valid_y
    IN  dx * dx + dy * dy

\* a jump test with an inclusive boundary (>=)
JumpDetected_inclusive(distance_sq) ==
    distance_sq >= XPT2046_JUMP_THRESHOLD * XPT2046_JUMP_THRESHOLD

\* distance_sq > threshold_sq
JumpDetected(distance_sq) ==
    distance_sq > XPT2046_JUMP_THRESHOLD * XPT2046_JUMP_THRESHOLD

\* a jump-ceiling reset that keeps the smoothing history
OnJumpCeiling_keepsHistory(st) ==
    [st EXCEPT !.invalid_count = 0]

\* "too many consecutive jumps, assume new touch"
OnJumpCeiling(st) ==
    [st EXCEPT !.avg_count = 0,
               !.avg_buf_x = ZeroBuf,
               !.avg_buf_y = ZeroBuf,
               !.invalid_count = 0]

\* the jump check on the calibrated point (x, y): the filter state after it,
\* whether the sample is skipped, and which branches were taken
JumpCheck(st, x, y) ==
    IF HasLastValid(st)
    THEN IF JumpDetected(DistanceSq(st, x, y))
         THEN LET count == ToUint8(st.invalid_count + 1)
              IN  IF CeilingReached(count)
                  THEN [st |-> OnJumpCeiling([st EXCEPT !.invalid_count = count]),
                        skip |-> FALSE, jump |-> TRUE, ceiling |-> TRUE]
                  ELSE [st |-> [st EXCEPT !.invalid_count = count],
                        skip |-> TRUE, jump |-> TRUE, ceiling |-> FALSE]
         ELSE [st |-> [st EXCEPT !.invalid_count = 0],
               skip |-> FALSE, jump |-> FALSE, ceiling |-> FALSE]
    ELSE [st |-> st, skip |-> FALSE, jump |-> FALSE, ceiling |-> FALSE]

\* smoothing, storing the valid coordinates and the output of an accepted
\* sample
AcceptSample(st, x, y) ==
    LET avg == XPT2046_Average(st, x, y)
    IN  [st |-> [avg.st EXCEPT !.last_valid_x = avg.x, !.last_valid_y = avg.y],
         x  |-> avg.x,
         y  |-> avg.y,
         div |-> avg.div]

\* One whole XPT2046_Read: st is the filter state, cal the calibration
\* profile, width/height the screen size, z1resp/z2resp and xresp/yresp the
\* responses of the exchanges, ubq the quotient of a division by zero.
\* Result: the filter state after the call, the return value, the point
\* written to the caller (when ret) and the branches taken.
\* pressed: what XPT2046_IsPressed returned
ReadResultAfterGate(pressed, st, cal, width, height, z1resp, z2resp, xresp, yresp, ubq) ==
    LET none == [st |-> st, ret |-> FALSE, x |-> 0, y |-> 0,
                 pressed |-> FALSE, reliable |-> FALSE, mapped |-> FALSE,
                 cal_x |-> 0, cal_y |-> 0, div_x |-> 0, div_y |-> 0,
                 jump |-> FALSE, ceiling |-> FALSE,
                 med_x |-> 0, med_y |-> 0, var_x |-> 0, var_y |-> 0,
                 avg_div |-> 0,
                 z1 |-> Sample12(z1resp), z2 |-> Sample12(z2resp),
                 xresp |-> xresp, yresp |-> yresp]
    IN
    IF ~pressed
    THEN [none EXCEPT !.st = ReleaseReset(st)]
    ELSE LET rf == XPT2046_ReadFiltered(xresp, yresp)
         IN
         IF ~rf.ok
         THEN LET ust == OnUnreliable(st)
              IN  [none EXCEPT !.st = ust, !.pressed = TRUE,
                               !.ceiling = CeilingReached(ust.invalid_count),
                               !.med_x = rf.x, !.med_y = rf.y,
                               !.var_x = rf.var_x, !.var_y = rf.var_y]
         ELSE LET m  == XPT2046_ApplyCalibration(rf.x, rf.y, cal, width, height,
                                                 ubq, ubq)
                  jc == JumpCheck(st, m.x, m.y)
                  base == [none EXCEPT !.pressed = TRUE, !.reliable = TRUE,
                                       !.mapped = TRUE,
                                       !.cal_x = m.x, !.cal_y = m.y,
                                       !.div_x = m.div_x, !.div_y = m.div_y,
                                       !.jump = jc.jump, !.ceiling = jc.ceiling,
                                       !.med_x = rf.x, !.med_y = rf.y,
                                       !.var_x = rf.var_x, !.var_y = rf.var_y]
              IN
              IF jc.skip
              THEN [base EXCEPT !.st = jc.st]
              ELSE LET acc == AcceptSample(jc.st, m.x, m.y)
                   IN  [base EXCEPT !.st = acc.st, !.ret = TRUE,
                                    !.x = acc.x, !.y = acc.y,
                                    !.avg_div = acc.div]

ReadResult(st, cal, width, height, z1resp, z2resp, xresp, yresp, ubq) ==
    ReadResultAfterGate(IsPressed(z1resp, z2resp), st, cal, width, height,
                        z1resp, z2resp, xresp, yresp, ubq)

\* an output written before the call knows whether it accepts the sample
CallerOut_always(ret, new, old) == new

\* the caller's coordinate after the call: *x = raw_x only on the accept path
CallerOut(ret, new, old) == IF ret THEN new ELSE old

\* the call reaches the mapper with a zero raw range on some axis
DividesByZero(cal, z1resp, z2resp, xresp, yresp) ==
    /\ IsPressed(z1resp, z2resp)
    /\ XPT2046_ReadFiltered(xresp, yresp).ok
    /\ (cal.x_max - cal.x_min = 0 \/ cal.y_max - cal.y_min = 0)

(***************************************************************************)
(* Diagnostics: XPT2046_IsTouched and XPT2046_ReadRaw                      *)
(***************************************************************************)
\* a sum that starts at the second sample
RECURSIVE RawSum_skipsFirst(_, _)
RawSum_skipsFirst(resp, n) ==
    IF n <= 1 THEN 0
    ELSE ToInt16(RawSum_skipsFirst(resp, n - 1) + Sample12(resp[n - 1]))

\* raw += XPT2046_SendCommand(cmd) >> 3, n times, in an int16_t
RECURSIVE RawSum(_, _)
RawSum(resp, n) ==
    IF n = 0 THEN 0 ELSE ToInt16(RawSum(resp, n - 1) + Sample12(resp[n - 1]))

\* xresp, yresp: the responses of the 3 X and 3 Y exchanges, indexed 0..2
ReadRawResult(z1resp, z2resp, xresp, yresp) ==
    IF ~IsPressed(z1resp, z2resp)
    THEN [ret |-> FALSE, x |-> 0, y |-> 0]
    ELSE [ret |-> TRUE,
          x |-> ToInt16(TruncDiv(RawSum(xresp, 3), 3)),
          y |-> ToInt16(TruncDiv(RawSum(yresp, 3), 3))]

\* a diagnostic that shares the release reset of XPT2046_Read
FilterAfterProbe_resets(st, pressed) ==
    IF pressed THEN st ELSE ReleaseReset(st)

\* the filter state after XPT2046_IsTouched / XPT2046_ReadRaw: neither
\* function writes any of the static variables
FilterAfterProbe(st, pressed) == st

(***************************************************************************)
(* Inputs explored                                                         *)
(***************************************************************************)
\* the response frame carrying the 12-bit reading v (bits 14..3)
Resp(v) == v * 8

\* a batch of 7 equal readings
Flat(v) == [i \in 0..(XPT2046_READ_SAMPLES - 1) |-> Resp(v)]

\* a batch of equal readings with one sample replaced by o
OneOff(v, o) ==
    [i \in 0..(XPT2046_READ_SAMPLES - 1) |-> IF i = 2 THEN Resp(o) ELSE Resp(v)]

\* X batches: pixel 100, pixel 180 and a reading above x_max under the
\* default profile, and a batch with one sample 400 off its median
\* (variance 400 * 400 / 7 = 22857)
XBatches == {Flat(1320), Flat(2247), Flat(4095), OneOff(1320, 1720)}

\* Y batches: pixel 100 and pixel 101 under the default profile
YBatches == {Flat(1755), Flat(1770)}

\* pressure plates (z1, z2): touched, difference below threshold, z1 too low
ZPairs == {<<Resp(100), Resp(700)>>, <<Resp(100), Resp(150)>>,
           <<Resp(40), Resp(700)>>}

\* arguments of XPT2046_Calibrate (x_min, y_min, x_max, y_max): the default
\* profile, a zero X range, an inverted Y range
CalArgs == {<<160, 215, 3870, 3910>>, <<160, 215, 160, 3910>>,
            <<160, 3910, 3870, 215>>}

\* arguments of XPT2046_SetScreenSize (width, height)
ScreenArgs == {<<320, 240>>, <<280, 240>>}

\* pressure-plate responses around the two thresholds of the gate: readings
\* 49/50 (z1 floor), differences 499/500/501, a frame with the low three
\* bits set (reading 100) and a frame with the top bit set (reading -1)
GateResps == {Resp(0), Resp(49), Resp(50), Resp(100), Resp(100) + 7,
              Resp(150), Resp(549), Resp(550), Resp(551), Resp(600),
              Resp(601), Resp(700), Resp(4095), 65528}

\* the three X (or Y) responses of one XPT2046_ReadRaw
RawTriples == {[i \in 0..2 |-> Resp(1320)],
               [i \in 0..2 |-> IF i = 0 THEN Resp(4095) ELSE Resp(1320)]}

\* every triple of responses over the readings 0, 1, 1320 and 4095
RawTripleInputs == [0..2 -> {Resp(0), Resp(1), Resp(1320), Resp(4095)}]

\* valid profiles (x_min, y_min, x_max, y_max) inside the 12-bit raw range
MapCalArgs == {<<160, 215, 3870, 3910>>, <<0, 0, 4095, 4095>>,
               <<200, 300, 3800, 3700>>}

\* screen sizes: portrait, landscape, and a width above INT16_MAX
MapScreenArgs == {<<240, 320>>, <<320, 240>>, <<40000, 240>>}

\* raw points at the two corners of each profile
MapCorners == {<<a[1], a[2]>> : a \in MapCalArgs}
              \cup {<<a[3], a[4]>> : a \in MapCalArgs}

\* batches of 7 equal readings, one for every 12-bit value
AllFlat == {Flat(v) : v \in 0..4095}

\* batches of six equal readings and one perturbed by d raw units: variance
\* d * d / 7 is below the ceiling for 264, above it otherwise
Perturbed == {OneOff(v, v + d) : v \in {1320, 2000},
                                d \in {264, 265, 400, 478, 479, 1000, 2000}}

\* flat batches for the axis that is not varied
FewFlat == {Flat(0), Flat(1755), Flat(4095)}

\* (X batch, Y batch) inputs of the variance gate
BatchInputs == ((AllFlat \cup Perturbed) \X FewFlat)
               \cup (FewFlat \X (AllFlat \cup Perturbed))

\* sample values and extreme values given to the median filter
MedianValues == {100, 2000, 2001}

MedianExtremes == {-32768, 32767}

\* a batch of exchanges in which exchange i has the given status
WithStatus(batch, i, status) ==
    [batch EXCEPT ![i] = [status |-> status, frame |-> 0]]

\* gate exchanges (Z1, Z2): touched, not touched, each exchange failing or
\* stalling while the panel is touched
GateExchanges ==
    {<<OkEx(Resp(100)), OkEx(Resp(700))>>,
     <<OkEx(Resp(40)), OkEx(Resp(700))>>,
     <<[status |-> "error", frame |-> 0], OkEx(Resp(700))>>,
     <<OkEx(Resp(100)), [status |-> "error", frame |-> 0]>>,
     <<[status |-> "stall", frame |-> 0], OkEx(Resp(700))>>,
     <<OkEx(Resp(100)), [status |-> "stall", frame |-> 0]>>}

\* X exchanges of the sampling loop: pixel 100, with the third exchange
\* failing or stalling
XExchanges ==
    {OkBatch(Flat(1320)),
     WithStatus(OkBatch(Flat(1320)), 2, "error"),
     WithStatus(OkBatch(Flat(1320)), 2, "stall")}

\* Y exchanges of the sampling loop: pixel 100, with the last one stalling
YExchanges ==
    {OkBatch(Flat(1755)),
     WithStatus(OkBatch(Flat(1755)), XPT2046_READ_SAMPLES - 1, "stall")}

\* what a division by zero does on the target: fault, quotient 0, or
\* quotient 0xFFFFFFFF
DivZeroOutcomes == {"trap", "zero", "ones"}

DivZeroQuot16(outcome) == IF outcome = "ones" THEN 65535 ELSE 0

(***************************************************************************)
(* State                                                                   *)
(***************************************************************************)
VARIABLES
    avg_buf_x, avg_buf_y, avg_count,       \* averaging buffer
    calibration,                           \* calibration profile
    screen_width, screen_height,           \* screen dimensions
    last_valid_x, last_valid_y,            \* last valid point, -1 if none
    invalid_count,                         \* consecutive invalid samples
    out_x, out_y,                          \* the caller's *x and *y
    halted,                                \* the core stopped in a fault
    nops,                                  \* public calls made
    last,                                  \* what the last call did
    jump_run,                              \* consecutive jump-rejected reads
    rej_run,                               \* consecutive rejected reads
    ceiling_pending,                       \* ceiling hit, nothing accepted since
    cfg_ok,                                \* profile and screen valid so far
    accepted,                              \* calibrated points accepted since
                                           \* the history was last reset,
                                           \* oldest first
    bus,                                   \* exchanges of the last call
    irq_defined,                           \* built with XPT2046_IRQ_PIN
    irq_low,                               \* IRQ line low at the last call
    calls                                  \* invocations in progress
                                           \* at the same time

filter_vars == <<avg_buf_x, avg_buf_y, avg_count, last_valid_x, last_valid_y,
                 invalid_count>>
config_vars == <<calibration, screen_width, screen_height>>
hist_vars == <<jump_run, rej_run, ceiling_pending, accepted>>
vars == <<avg_buf_x, avg_buf_y, avg_count, calibration, screen_width,
          screen_height, last_valid_x, last_valid_y, invalid_count,
          out_x, out_y, halted, nops, last, jump_run, rej_run,
          ceiling_pending, cfg_ok, accepted, bus, irq_defined, irq_low,
          calls>>

\* the filter state as one record
FilterState ==
    [avg_buf_x |-> avg_buf_x, avg_buf_y |-> avg_buf_y, avg_count |-> avg_count,
     last_valid_x |-> last_valid_x, last_valid_y |-> last_valid_y,
     invalid_count |-> invalid_count]

\* x_min < x_max and y_min < y_max
ValidProfile(cal) == cal.x_min < cal.x_max /\ cal.y_min < cal.y_max

NoCall ==
    [op |-> "none", ret |-> FALSE, pressed |-> FALSE, reliable |-> FALSE,
     mapped |-> FALSE, cal_x |-> 0, cal_y |-> 0, div_x |-> 0, div_y |-> 0,
     jump |-> FALSE, ceiling |-> FALSE, after_ceiling |-> FALSE,
     pre_inv |-> 0, pre_cnt |-> 0, pre_lvx |-> -1, pre_lvy |-> -1,
     z1 |-> 0, z2 |-> 0, med_x |-> 0, med_y |-> 0, var_x |-> 0, var_y |-> 0,
     avg_div |-> 0, pre_out_x |-> -1, pre_out_y |-> -1,
     raw_x |-> 0, raw_y |-> 0, xresp |-> <<>>, yresp |-> <<>>]

\* no overlapping invocations
NoCalls == [phase |-> "idle"]

PowerUp ==
    /\ avg_buf_x = ZeroBuf
    /\ avg_buf_y = ZeroBuf
    /\ avg_count = 0
    /\ calibration = [x_min |-> XPT2046_X_MIN, y_min |-> XPT2046_Y_MIN,
                      x_max |-> XPT2046_X_MAX, y_max |-> XPT2046_Y_MAX]
    /\ screen_width = ST7789_WIDTH
    /\ screen_height = ST7789_HEIGHT
    /\ last_valid_x = -1
    /\ last_valid_y = -1
    /\ invalid_count = 0
    /\ out_x = -1
    /\ out_y = -1
    /\ halted = FALSE
    /\ nops = 0
    /\ last = NoCall
    /\ jump_run = 0
    /\ rej_run = 0
    /\ ceiling_pending = FALSE
    /\ cfg_ok = TRUE
    /\ accepted = <<>>
    /\ bus = <<>>
    /\ irq_low = TRUE
    /\ calls = NoCalls

\* the build of the repository: XPT2046_IRQ_PIN is commented out
Init == PowerUp /\ irq_defined = FALSE

\* either build: with or without XPT2046_IRQ_PIN
InitBus == PowerUp /\ irq_defined \in BOOLEAN

\* a call that makes no exchange, made while no other call is in progress
NoBusTraffic == bus' = <<>> /\ UNCHANGED <<irq_defined, irq_low, calls>>

(***************************************************************************)
(* Operations                                                              *)
(***************************************************************************)
\* an initialisation that leaves the last valid point in place
XPT2046_Init_keepsLastValid ==
    /\ ~halted
    /\ avg_buf_x' = ZeroBuf
    /\ avg_buf_y' = ZeroBuf
    /\ avg_count' = 0
    /\ invalid_count' = 0
    /\ nops' = nops + 1
    /\ last' = [NoCall EXCEPT !.op = "init"]
    /\ rej_run' = 0
    /\ accepted' = <<>>
    /\ NoBusTraffic
    /\ UNCHANGED <<last_valid_x, last_valid_y, config_vars, out_x, out_y,
                   halted, jump_run, ceiling_pending, cfg_ok>>

XPT2046_Init ==
    /\ ~halted
    /\ avg_buf_x' = ZeroBuf
    /\ avg_buf_y' = ZeroBuf
    /\ avg_count' = 0
    /\ last_valid_x' = -1
    /\ last_valid_y' = -1
    /\ invalid_count' = 0
    /\ nops' = nops + 1
    /\ last' = [NoCall EXCEPT !.op = "init"]
    /\ rej_run' = 0
    /\ accepted' = <<>>
    /\ NoBusTraffic
    /\ UNCHANGED <<config_vars, out_x, out_y, halted, jump_run,
                   ceiling_pending, cfg_ok>>

XPT2046_Calibrate(x_min, y_min, x_max, y_max) ==
    /\ ~halted
    /\ calibration' = [x_min |-> x_min, y_min |-> y_min,
                       x_max |-> x_max, y_max |-> y_max]
    /\ nops' = nops + 1
    /\ last' = [NoCall EXCEPT !.op = "calibrate"]
    /\ rej_run' = 0
    /\ cfg_ok' = (cfg_ok /\ ValidProfile(calibration'))
    /\ NoBusTraffic
    /\ UNCHANGED <<filter_vars, screen_width, screen_height, out_x, out_y,
                   halted, jump_run, ceiling_pending, accepted>>

XPT2046_SetScreenSize(width, height) ==
    /\ ~halted
    /\ screen_width' = width
    /\ screen_height' = height
    /\ nops' = nops + 1
    /\ last' = [NoCall EXCEPT !.op = "set_screen_size"]
    /\ rej_run' = 0
    /\ cfg_ok' = (cfg_ok /\ width > 0 /\ height > 0)
    /\ NoBusTraffic
    /\ UNCHANGED <<filter_vars, calibration, out_x, out_y, halted, jump_run,
                   ceiling_pending, accepted>>

\* a read whose division by zero faults: the core stops inside the mapper,
\* before any of the filter state has been written
ReadTrap(z1resp, z2resp, xresp, yresp) ==
    /\ halted' = TRUE
    /\ last' = [NoCall EXCEPT !.op = "read", !.pressed = TRUE,
                              !.z1 = Sample12(z1resp), !.z2 = Sample12(z2resp),
                              !.xresp = xresp, !.yresp = yresp,
                              !.pre_out_x = out_x, !.pre_out_y = out_y,
                              !.reliable = TRUE, !.mapped = TRUE,
                              !.div_x = calibration.x_max - calibration.x_min,
                              !.div_y = calibration.y_max - calibration.y_min,
                              !.pre_inv = invalid_count, !.pre_cnt = avg_count,
                              !.pre_lvx = last_valid_x, !.pre_lvy = last_valid_y]
    /\ UNCHANGED <<filter_vars, out_x, out_y, hist_vars>>

\* a read that runs to its return
ReadReturn(r) ==
    /\ halted' = FALSE
    /\ avg_buf_x' = r.st.avg_buf_x
    /\ avg_buf_y' = r.st.avg_buf_y
    /\ avg_count' = r.st.avg_count
    /\ last_valid_x' = r.st.last_valid_x
    /\ last_valid_y' = r.st.last_valid_y
    /\ invalid_count' = r.st.invalid_count
    /\ out_x' = CallerOut(r.ret, r.x, out_x)
    /\ out_y' = CallerOut(r.ret, r.y, out_y)
    /\ last' = [op |-> "read", ret |-> r.ret, pressed |-> r.pressed,
                reliable |-> r.reliable, mapped |-> r.mapped,
                cal_x |-> r.cal_x, cal_y |-> r.cal_y,
                div_x |-> r.div_x, div_y |-> r.div_y,
                jump |-> r.jump, ceiling |-> r.ceiling,
                after_ceiling |-> (ceiling_pending \/ r.ceiling),
                pre_inv |-> invalid_count, pre_cnt |-> avg_count,
                pre_lvx |-> last_valid_x, pre_lvy |-> last_valid_y,
                z1 |-> r.z1, z2 |-> r.z2,
                med_x |-> r.med_x, med_y |-> r.med_y,
                var_x |-> r.var_x, var_y |-> r.var_y,
                avg_div |-> r.avg_div,
                pre_out_x |-> out_x, pre_out_y |-> out_y,
                raw_x |-> 0, raw_y |-> 0,
                xresp |-> r.xresp, yresp |-> r.yresp]
    /\ jump_run' = IF r.jump /\ ~r.ret THEN jump_run + 1 ELSE 0
    /\ rej_run' = IF r.pressed /\ ~r.ret
                     /\ (rej_run \in 1..2
                         \/ (HasLastValid(FilterState) /\ invalid_count = 0))
                  THEN (IF rej_run \in 1..2 THEN rej_run + 1 ELSE 1)
                  ELSE 0
    /\ ceiling_pending' = IF r.ret THEN FALSE
                          ELSE (ceiling_pending \/ r.ceiling)
    /\ accepted' = IF r.ret
                   THEN (IF r.ceiling THEN <<>> ELSE accepted)
                        \o <<(<<r.cal_x, r.cal_y>>)>>
                   ELSE IF ~r.pressed \/ r.ceiling THEN <<>> ELSE accepted

\* a read in which an exchange never returns: the call blocks in the HAL,
\* before any of the filter state has been written
ReadStall(pressed) ==
    /\ halted' = TRUE
    /\ last' = [NoCall EXCEPT !.op = "read", !.pressed = pressed,
                              !.pre_out_x = out_x, !.pre_out_y = out_y,
                              !.pre_inv = invalid_count, !.pre_cnt = avg_count,
                              !.pre_lvx = last_valid_x, !.pre_lvy = last_valid_y]
    /\ UNCHANGED <<filter_vars, out_x, out_y, hist_vars>>

\* a read whose exchanges all return and whose gate sampled the plates
ReadCall(z1resp, z2resp, xresp, yresp) ==
    \E outcome \in (IF DividesByZero(calibration, z1resp, z2resp, xresp, yresp)
                    THEN DivZeroOutcomes ELSE {"none"}) :
       IF outcome = "trap"
       THEN ReadTrap(z1resp, z2resp, xresp, yresp)
       ELSE ReadReturn(ReadResult(FilterState, calibration, screen_width,
                                  screen_height, z1resp, z2resp, xresp,
                                  yresp, DivZeroQuot16(outcome)))

\* XPT2046_Read on the bus. line_low: the IRQ line is low; z1ex, z2ex: the
\* exchanges of the gate; xex, yex: the exchanges of the sampling loop
XPT2046_ReadOnBus(line_low, z1ex, z2ex, xex, yex) ==
    LET blocked == GateBlocked(irq_defined, line_low)
        gbus    == IF blocked THEN <<>> ELSE UpToStall(GateBus(z1ex, z2ex))
        gret    == blocked \/ Returned(GateBus(z1ex, z2ex))
        z1resp  == XPT2046_SendCommand(z1ex)
        z2resp  == XPT2046_SendCommand(z2ex)
        xresp   == [i \in DOMAIN xex |-> XPT2046_SendCommand(xex[i])]
        yresp   == [i \in DOMAIN yex |-> XPT2046_SendCommand(yex[i])]
        pressed == ~blocked /\ gret /\ IsPressed(z1resp, z2resp)
        sbus    == SampleBus(xex, yex, XPT2046_READ_SAMPLES)
    IN  /\ ~halted
        /\ nops' = nops + 1
        /\ bus' = gbus \o (IF pressed THEN UpToStall(sbus) ELSE <<>>)
        /\ irq_low' = line_low
        /\ IF ~gret \/ (pressed /\ ~Returned(sbus))
           THEN ReadStall(pressed)
           ELSE IF blocked
           THEN ReadReturn(ReadResultAfterGate(FALSE, FilterState, calibration,
                                               screen_width, screen_height,
                                               0, 0, xresp, yresp, 0))
           ELSE ReadCall(z1resp, z2resp, xresp, yresp)
        /\ UNCHANGED <<config_vars, cfg_ok, irq_defined, calls>>

\* a read with the IRQ line low (if there is one) and no transport failure
XPT2046_Read(z1resp, z2resp, xresp, yresp) ==
    XPT2046_ReadOnBus(TRUE, OkEx(z1resp), OkEx(z2resp), OkBatch(xresp),
                      OkBatch(yresp))

\* the filter variables take the values of the record st
SetFilter(st) ==
    /\ avg_buf_x' = st.avg_buf_x
    /\ avg_buf_y' = st.avg_buf_y
    /\ avg_count' = st.avg_count
    /\ last_valid_x' = st.last_valid_x
    /\ last_valid_y' = st.last_valid_y
    /\ invalid_count' = st.invalid_count

\* XPT2046_IsTouched on the bus, every exchange succeeding
XPT2046_IsTouchedOnBus(line_low, z1resp, z2resp) ==
    LET blocked == GateBlocked(irq_defined, line_low)
        pressed == ~blocked /\ IsPressed(z1resp, z2resp)
    IN  /\ ~halted
        /\ nops' = nops + 1
        /\ SetFilter(FilterAfterProbe(FilterState, pressed))
        /\ last' = [NoCall EXCEPT
                       !.op = "is_touched", !.ret = pressed,
                       !.pressed = pressed,
                       !.z1 = IF blocked THEN 0 ELSE Sample12(z1resp),
                       !.z2 = IF blocked THEN 0 ELSE Sample12(z2resp)]
        /\ bus' = IF blocked THEN <<>>
                  ELSE GateBus(OkEx(z1resp), OkEx(z2resp))
        /\ irq_low' = line_low
        /\ UNCHANGED <<config_vars, out_x, out_y, halted, hist_vars, cfg_ok,
                       irq_defined, calls>>

XPT2046_IsTouched(z1resp, z2resp) ==
    XPT2046_IsTouchedOnBus(TRUE, z1resp, z2resp)

\* XPT2046_ReadRaw on the bus, every exchange succeeding
XPT2046_ReadRawOnBus(line_low, z1resp, z2resp, xresp, yresp) ==
    LET blocked == GateBlocked(irq_defined, line_low)
        pressed == ~blocked /\ IsPressed(z1resp, z2resp)
        r == IF blocked THEN [ret |-> FALSE, x |-> 0, y |-> 0]
             ELSE ReadRawResult(z1resp, z2resp, xresp, yresp)
    IN  /\ ~halted
        /\ nops' = nops + 1
        /\ SetFilter(FilterAfterProbe(FilterState, pressed))
        /\ last' = [NoCall EXCEPT
                       !.op = "read_raw", !.ret = r.ret,
                       !.pressed = pressed,
                       !.z1 = IF blocked THEN 0 ELSE Sample12(z1resp),
                       !.z2 = IF blocked THEN 0 ELSE Sample12(z2resp),
                       !.raw_x = r.x, !.raw_y = r.y,
                       !.xresp = xresp, !.yresp = yresp]
        /\ bus' = (IF blocked THEN <<>>
                   ELSE GateBus(OkEx(z1resp), OkEx(z2resp)))
                  \o (IF pressed
                      THEN SampleBus(OkBatch(xresp), OkBatch(yresp), 3)
                      ELSE <<>>)
        /\ irq_low' = line_low
        /\ UNCHANGED <<config_vars, out_x, out_y, halted, hist_vars, cfg_ok,
                       irq_defined, calls>>

XPT2046_ReadRaw(z1resp, z2resp, xresp, yresp) ==
    XPT2046_ReadRawOnBus(TRUE, z1resp, z2resp, xresp, yresp)

(***************************************************************************)
(* Two read() invocations in progress at once (a second context calling    *)
(* XPT2046_Read while the first is inside it). An invocation advances one  *)
(* step at a time; the steps of XPT2046_Average are its statements: the    *)
(* iterations of the shift loop, the store of the new point, the test and  *)
(* the increment of avg_count, the summing and division.                   *)
(***************************************************************************)
\* the readings of the two invocations: pixels (100,100) and (180,100)
RaceInputs ==
    <<[z1 |-> Resp(100), z2 |-> Resp(700), x |-> Flat(1320), y |-> Flat(1755)],
      [z1 |-> Resp(100), z2 |-> Resp(700), x |-> Flat(2247), y |-> Flat(1755)]>>

Entered == [pc |-> "gate", x |-> 0, y |-> 0, i |-> 0, ret |-> FALSE]

Finished(me, ret) == [me EXCEPT !.pc = "done", !.ret = ret]

\* a test of the filled count that lets it pass the capacity
CountBelowCapacity_inclusive(count) == count <= XPT2046_AVG_SAMPLES

\* if (avg_count < XPT2046_AVG_SAMPLES)
CountBelowCapacity(count) == count < XPT2046_AVG_SAMPLES

\* what a read of avg_buf_x[i] or avg_buf_y[i] with i beyond the array can
\* give: the arrays and avg_count are adjacent statics
OobReads == {0, avg_buf_y[0], avg_count}

\* sum of buf[0..n-1], an element beyond the array reading as oob
RECURSIVE SumRace(_, _, _)
SumRace(buf, n, oob) ==
    IF n = 0 THEN 0
    ELSE SumRace(buf, n - 1, oob)
         + (IF n - 1 < XPT2046_AVG_SAMPLES THEN buf[n - 1] ELSE oob)

\* callers that take a lock around read(): caller p may step if no other
\* caller is inside
MayStep(p) == ~calls.lock \/ calls.owner \in {0, p}

\* two callers enter read() at once, with or without a lock around it
RaceStart(lock) ==
    /\ ~halted /\ calls.phase = "idle"
    /\ calls' = [phase |-> "racing", lock |-> lock, owner |-> 0,
                 st0 |-> FilterState, inv |-> <<Entered, Entered>>]
    /\ UNCHANGED <<filter_vars, config_vars, out_x, out_y, halted, nops, last,
                   hist_vars, cfg_ok, bus, irq_defined, irq_low>>

\* one step of invocation p
RaceStep(p) ==
    LET me == calls.inv[p]
        in == RaceInputs[p]
        st == FilterState
        \* the invocation goes on as nxt
        Go(nxt) ==
            calls' = [calls EXCEPT !.inv[p] = nxt,
                                   !.owner = IF ~calls.lock THEN 0
                                             ELSE IF nxt.pc = "done" THEN 0
                                             ELSE p]
    IN
    /\ ~halted /\ calls.phase = "racing" /\ me.pc # "done" /\ MayStep(p)
    /\ CASE me.pc = "gate" ->
            \* XPT2046_IsPressed, XPT2046_ReadFiltered, XPT2046_ApplyCalibration
            IF ~IsPressed(in.z1, in.z2)
            THEN SetFilter(ReleaseReset(st)) /\ Go(Finished(me, FALSE))
                 /\ UNCHANGED halted
            ELSE LET rf == XPT2046_ReadFiltered(in.x, in.y)
                     m  == XPT2046_ApplyCalibration(rf.x, rf.y, calibration,
                                                    screen_width,
                                                    screen_height, 0, 0)
                 IN  IF ~rf.ok
                     THEN SetFilter(OnUnreliable(st))
                          /\ Go(Finished(me, FALSE)) /\ UNCHANGED halted
                     ELSE Go([me EXCEPT !.pc = "jump", !.x = m.x, !.y = m.y])
                          /\ UNCHANGED <<filter_vars, halted>>
         [] me.pc = "jump" ->
            LET jc == JumpCheck(st, me.x, me.y)
            IN  /\ SetFilter(jc.st)
                /\ Go(IF jc.skip THEN Finished(me, FALSE)
                      ELSE [me EXCEPT !.pc = "shift",
                                      !.i = XPT2046_AVG_SAMPLES - 1])
                /\ UNCHANGED halted
         [] me.pc = "shift" ->
            \* avg_buf_x[i] = avg_buf_x[i - 1]; avg_buf_y[i] = avg_buf_y[i - 1]
            /\ avg_buf_x' = [avg_buf_x EXCEPT ![me.i] = avg_buf_x[me.i - 1]]
            /\ avg_buf_y' = [avg_buf_y EXCEPT ![me.i] = avg_buf_y[me.i - 1]]
            /\ Go([me EXCEPT !.i = me.i - 1,
                             !.pc = IF me.i - 1 > 0 THEN "shift" ELSE "store"])
            /\ UNCHANGED <<avg_count, last_valid_x, last_valid_y,
                           invalid_count, halted>>
         [] me.pc = "store" ->
            /\ avg_buf_x' = [avg_buf_x EXCEPT ![0] = me.x]
            /\ avg_buf_y' = [avg_buf_y EXCEPT ![0] = me.y]
            /\ Go([me EXCEPT !.pc = "test"])
            /\ UNCHANGED <<avg_count, last_valid_x, last_valid_y,
                           invalid_count, halted>>
         [] me.pc = "test" ->
            /\ Go([me EXCEPT !.pc = IF CountBelowCapacity(avg_count)
                                    THEN "inc" ELSE "sum"])
            /\ UNCHANGED <<filter_vars, halted>>
         [] me.pc = "inc" ->
            /\ avg_count' = ToUint8(avg_count + 1)
            /\ Go([me EXCEPT !.pc = "sum"])
            /\ UNCHANGED <<avg_buf_x, avg_buf_y, last_valid_x, last_valid_y,
                           invalid_count, halted>>
         [] me.pc = "sum" ->
            \* the summing loop and *x = sum_x / avg_count
            /\ UNCHANGED filter_vars
            /\ IF avg_count = 0
               THEN \E outcome \in DivZeroOutcomes :
                       IF outcome = "trap"
                       THEN halted' = TRUE /\ UNCHANGED calls
                       ELSE /\ Go([me EXCEPT
                                     !.pc = "valid",
                                     !.x = ToInt16(DivZeroQuot16(outcome)),
                                     !.y = ToInt16(DivZeroQuot16(outcome))])
                            /\ UNCHANGED halted
               ELSE \E ox \in (IF avg_count > XPT2046_AVG_SAMPLES
                               THEN OobReads ELSE {0}) :
                       /\ Go([me EXCEPT
                                !.pc = "valid",
                                !.x = ToInt16(TruncDiv(
                                         SumRace(avg_buf_x, avg_count, ox),
                                         avg_count)),
                                !.y = ToInt16(TruncDiv(
                                         SumRace(avg_buf_y, avg_count, ox),
                                         avg_count))])
                       /\ UNCHANGED halted
         [] me.pc = "valid" ->
            /\ last_valid_x' = me.x
            /\ last_valid_y' = me.y
            /\ Go([me EXCEPT !.pc = "out"])
            /\ UNCHANGED <<avg_buf_x, avg_buf_y, avg_count, invalid_count,
                           halted>>
         [] me.pc = "out" ->
            \* *x = raw_x; *y = raw_y; return true
            /\ Go(Finished(me, TRUE))
            /\ UNCHANGED <<filter_vars, halted>>
    /\ UNCHANGED <<config_vars, out_x, out_y, nops, last, hist_vars, cfg_ok,
                   bus, irq_defined, irq_low>>

\* one call of median_filter on a batch of XPT2046_READ_SAMPLES samples
MedianCall(data) ==
    /\ nops = 0
    /\ nops' = 1
    /\ last' = [op |-> "median_filter", data |-> data,
                result |-> median_filter(data, XPT2046_READ_SAMPLES)]
    /\ NoBusTraffic
    /\ UNCHANGED <<filter_vars, config_vars, out_x, out_y, halted, hist_vars,
                   cfg_ok>>

\* one call of median_filter on a batch of size samples
MedianCallSized(data, size) ==
    /\ nops = 0
    /\ nops' = 1
    /\ last' = [op |-> "median_filter", data |-> data, size |-> size,
                result |-> median_filter(data, size)]
    /\ NoBusTraffic
    /\ UNCHANGED <<filter_vars, config_vars, out_x, out_y, halted, hist_vars,
                   cfg_ok>>

(***************************************************************************)
(* ST7789 drawing primitives: ST7789_DrawLine, ST7789_DrawRect             *)
(***************************************************************************)
\* #define ABS(x) ((x) > 0 ? (x) : -(x))
ABS(v) == IF v > 0 THEN v ELSE -v

\* ST7789_DrawPixel sends the pixel unless it lies outside the screen
PixelDrawn(x, y) == x < ST7789_WIDTH /\ y < ST7789_HEIGHT

\* ST7789_DrawLine up to its loop: the steep test, the two swaps and the
\* int16_t locals. x0, y0, x1, y1 are the uint16_t arguments.
DrawLineEntry(x0, y0, x1, y1) ==
    LET steep == ABS(y1 - y0) > ABS(x1 - x0)
        a0    == IF steep THEN y0 ELSE x0
        b0    == IF steep THEN x0 ELSE y0
        a1    == IF steep THEN y1 ELSE x1
        b1    == IF steep THEN x1 ELSE y1
        swap  == a0 > a1
        xs    == IF swap THEN a1 ELSE a0
        ys    == IF swap THEN b1 ELSE b0
        xe    == IF swap THEN a0 ELSE a1
        ye    == IF swap THEN b0 ELSE b1
        dx    == ToInt16(xe - xs)
    IN  [x0 |-> xs, y0 |-> ys, x1 |-> xe, y1 |-> ye, steep |-> steep,
         dx |-> dx, dy |-> ToInt16(ABS(ye - ys)),
         err |-> ToInt16(TruncDiv(dx, 2)),
         ystep |-> IF ys < ye THEN 1 ELSE -1]

\* the loop test of ST7789_DrawLine: x0 <= x1, both uint16_t
LineContinues(l) == l.x0 <= l.x1

\* one iteration of the loop, x0++ included
DrawLineBody(l) ==
    LET err1 == ToInt16(l.err - l.dy)
    IN  [l EXCEPT !.x0  = ToUint16(l.x0 + 1),
                  !.y0  = IF err1 < 0 THEN ToUint16(l.y0 + l.ystep) ELSE l.y0,
                  !.err = IF err1 < 0 THEN ToInt16(err1 + l.dx) ELSE err1]

\* the endpoints of the four ST7789_DrawLine calls of ST7789_DrawRect
DrawRectLines(x, y, w, h) ==
    LET xr == ToUint16(x + w - 1)
        yb == ToUint16(y + h - 1)
    IN  <<(<<x, y, xr, y>>), (<<xr, y, xr, yb>>), (<<xr, yb, x, yb>>),
          (<<x, yb, x, y>>)>>

\* a drawing call is entered: the first line reaches its loop, todo holds
\* the endpoints of the lines still to be drawn
DrawEnter(fn, lines) ==
    /\ ~halted /\ calls.phase = "idle"
    /\ calls' = [phase |-> "drawing", fn |-> fn,
                 line |-> DrawLineEntry(lines[1][1], lines[1][2], lines[1][3],
                                        lines[1][4]),
                 todo |-> Tail(lines)]
    /\ nops' = nops + 1
    /\ last' = [NoCall EXCEPT !.op = fn]
    /\ bus' = <<>>
    /\ UNCHANGED <<filter_vars, config_vars, out_x, out_y, halted, hist_vars,
                   cfg_ok, irq_defined, irq_low>>

ST7789_DrawLine(x0, y0, x1, y1) ==
    DrawEnter("ST7789_DrawLine", <<(<<x0, y0, x1, y1>>)>>)

ST7789_DrawRect(x, y, w, h) ==
    DrawEnter("ST7789_DrawRect", DrawRectLines(x, y, w, h))

\* one step of the drawing call in progress: an iteration of the loop, or
\* the return of ST7789_DrawLine followed by the next line or by the return
\* of the call
DrawLineStep ==
    LET l == calls.line
    IN  /\ ~halted /\ calls.phase = "drawing"
        /\ IF LineContinues(l)
           THEN /\ calls' = [calls EXCEPT !.line = DrawLineBody(l)]
                /\ last' = [op |-> "ST7789_DrawPixel",
                            x |-> IF l.steep THEN l.y0 ELSE l.x0,
                            y |-> IF l.steep THEN l.x0 ELSE l.y0,
                            drawn |-> IF l.steep THEN PixelDrawn(l.y0, l.x0)
                                      ELSE PixelDrawn(l.x0, l.y0)]
           ELSE /\ calls' = IF calls.todo = <<>>
                            THEN [calls EXCEPT !.phase = "returned"]
                            ELSE [calls EXCEPT
                                    !.line = DrawLineEntry(calls.todo[1][1],
                                                           calls.todo[1][2],
                                                           calls.todo[1][3],
                                                           calls.todo[1][4]),
                                    !.todo = Tail(calls.todo)]
                /\ UNCHANGED last
        /\ UNCHANGED <<filter_vars, config_vars, out_x, out_y, halted,
                       hist_vars, cfg_ok, nops, bus, irq_defined, irq_low>>

(***************************************************************************)
(* ST7789 drawing primitives: ST7789_SetWindow, ST7789_FillRect            *)
(***************************************************************************)
\* the data bytes of the CASET and RASET commands; x0, y0, x1, y1 are the
\* uint16_t arguments, shifted in place before they are split into bytes
ST7789_SetWindow(x0, y0, x1, y1) ==
    LET sx0 == ToUint16(x0 + ST7789_X_SHIFT)
        sx1 == ToUint16(x1 + ST7789_X_SHIFT)
        sy0 == ToUint16(y0 + ST7789_Y_SHIFT)
        sy1 == ToUint16(y1 + ST7789_Y_SHIFT)
    IN  [caset |-> <<sx0 \div 256, sx0 % 256, sx1 \div 256, sx1 % 256>>,
         raset |-> <<sy0 \div 256, sy0 % 256, sy1 \div 256, sy1 % 256>>]

\* if (x + w > ST7789_WIDTH) w = ST7789_WIDTH - x, for either axis
ClipExtent(start, extent, size) ==
    IF start + extent > size THEN size - start ELSE extent

\* ST7789_FillRect in the build without DMA: whether anything is sent, the
\* window set, and the pixels streamed as blocks of 64 and single pixels
FillRectResult(x, y, w, h) ==
    IF x >= ST7789_WIDTH \/ y >= ST7789_HEIGHT
    THEN [sent |-> FALSE, window |-> ST7789_SetWindow(0, 0, 0, 0),
          blocks |-> 0, singles |-> 0]
    ELSE LET cw     == ClipExtent(x, w, ST7789_WIDTH)
             ch     == ClipExtent(y, h, ST7789_HEIGHT)
             pixels == cw * ch
         IN  [sent   |-> TRUE,
              window |-> ST7789_SetWindow(x, y, ToUint16(x + cw - 1),
                                          ToUint16(y + ch - 1)),
              blocks |-> pixels \div FILL_BLOCK_PIXELS,
              singles |-> pixels % FILL_BLOCK_PIXELS]

\* one call of ST7789_FillRect after power-up
ST7789_FillRect(x, y, w, h) ==
    LET r == FillRectResult(x, y, w, h)
    IN  /\ ~halted /\ nops = 0
        /\ nops' = 1
        /\ last' = [op |-> "ST7789_FillRect", x |-> x, y |-> y, w |-> w,
                    h |-> h, sent |-> r.sent, window |-> r.window,
                    blocks |-> r.blocks, singles |-> r.singles]
        /\ NoBusTraffic
        /\ UNCHANGED <<filter_vars, config_vars, out_x, out_y, halted,
                       hist_vars, cfg_ok>>

Next ==
    \/ nops < MaxOps /\ XPT2046_Init
    \/ \E a \in CalArgs :
          nops < MaxOps /\ XPT2046_Calibrate(a[1], a[2], a[3], a[4])
    \/ \E s \in ScreenArgs :
          nops < MaxOps /\ XPT2046_SetScreenSize(s[1], s[2])
    \/ \E z \in ZPairs, xb \in XBatches, yb \in YBatches :
          nops < MaxOps /\ XPT2046_Read(z[1], z[2], xb, yb)

Spec == Init /\ [][Next]_vars

(***************************************************************************)
(* The pressure gate on its own: every public function that starts with    *)
(* XPT2046_IsPressed, over plate readings around the thresholds            *)
(***************************************************************************)
NextGate ==
    \/ \E z1 \in GateResps, z2 \in GateResps :
          nops < MaxGateOps /\ XPT2046_IsTouched(z1, z2)
    \/ \E z1 \in GateResps, z2 \in GateResps :
          nops < MaxGateOps /\ XPT2046_Read(z1, z2, Flat(1320), Flat(1755))
    \/ \E z1 \in GateResps, z2 \in GateResps, t \in RawTriples :
          nops < MaxGateOps /\ XPT2046_ReadRaw(z1, z2, t, t)

SpecGate == Init /\ [][NextGate]_vars

(***************************************************************************)
(* The calibration mapper driven through XPT2046_Read: valid profiles,     *)
(* screen sizes, and flat batches at the corners of the profiles           *)
(***************************************************************************)
NextMap ==
    \/ \E a \in MapCalArgs :
          nops < MaxMapOps /\ XPT2046_Calibrate(a[1], a[2], a[3], a[4])
    \/ \E sz \in MapScreenArgs :
          nops < MaxMapOps /\ XPT2046_SetScreenSize(sz[1], sz[2])
    \/ \E c \in MapCorners :
          nops < MaxMapOps
          /\ XPT2046_Read(Resp(100), Resp(700), Flat(c[1]), Flat(c[2]))

SpecMap == Init /\ [][NextMap]_vars

(***************************************************************************)
(* The variance gate: the first read after power-up, over flat batches of  *)
(* every 12-bit value and batches with one perturbed sample                *)
(***************************************************************************)
NextBatch ==
    \E b \in BatchInputs :
        nops = 0 /\ XPT2046_Read(Resp(100), Resp(700), b[1], b[2])

SpecBatch == Init /\ [][NextBatch]_vars

(***************************************************************************)
(* The smoother: touches at pixels (100,100), (180,100) and (319,100),     *)
(* releases and re-initialisation, long enough to evict from the history   *)
(***************************************************************************)
SmoothBatches == {Flat(1320), Flat(2247), Flat(4095)}

NextSmooth ==
    \/ nops < MaxSmoothOps /\ XPT2046_Init
    \/ \E xb \in SmoothBatches :
          nops < MaxSmoothOps
          /\ XPT2046_Read(Resp(100), Resp(700), xb, Flat(1755))
    \/ nops < MaxSmoothOps
       /\ XPT2046_Read(Resp(40), Resp(700), Flat(1320), Flat(1755))

SpecSmooth == Init /\ [][NextSmooth]_vars

(***************************************************************************)
(* The diagnostic probes interleaved with the operations of Spec           *)
(***************************************************************************)
NextProbe ==
    \/ nops < MaxProbeOps /\ XPT2046_Init
    \/ \E a \in CalArgs :
          nops < MaxProbeOps /\ XPT2046_Calibrate(a[1], a[2], a[3], a[4])
    \/ \E s \in ScreenArgs :
          nops < MaxProbeOps /\ XPT2046_SetScreenSize(s[1], s[2])
    \/ \E z \in ZPairs, xb \in XBatches, yb \in YBatches :
          nops < MaxProbeOps /\ XPT2046_Read(z[1], z[2], xb, yb)
    \/ \E z \in ZPairs :
          nops < MaxProbeOps /\ XPT2046_IsTouched(z[1], z[2])
    \/ \E z \in ZPairs, t \in RawTriples :
          nops < MaxProbeOps /\ XPT2046_ReadRaw(z[1], z[2], t, t)

SpecProbe == Init /\ [][NextProbe]_vars

(***************************************************************************)
(* The driver on the bus: either build (with or without an IRQ line), the  *)
(* line high or low, exchanges that fail or stall                          *)
(***************************************************************************)
NextBus ==
    \/ \E a \in CalArgs :
          nops < MaxBusOps /\ XPT2046_Calibrate(a[1], a[2], a[3], a[4])
    \/ \E line_low \in BOOLEAN, g \in GateExchanges, xex \in XExchanges,
          yex \in YExchanges :
          nops < MaxBusOps /\ XPT2046_ReadOnBus(line_low, g[1], g[2], xex, yex)
    \/ \E line_low \in BOOLEAN, z \in ZPairs :
          nops < MaxBusOps /\ XPT2046_IsTouchedOnBus(line_low, z[1], z[2])
    \/ \E line_low \in BOOLEAN, z \in ZPairs, t \in RawTriples :
          nops < MaxBusOps
          /\ XPT2046_ReadRawOnBus(line_low, z[1], z[2], t, t)

SpecBus == InitBus /\ [][NextBus]_vars

(***************************************************************************)
(* Overlapping reads: up to MaxRaceWarm serial reads of a touch at pixel   *)
(* (100,100), then two invocations at once, with or without a lock         *)
(***************************************************************************)
NextRace ==
    \/ /\ nops < MaxRaceWarm /\ calls.phase = "idle"
       /\ XPT2046_Read(Resp(100), Resp(700), Flat(1320), Flat(1755))
    \/ \E lock \in BOOLEAN : RaceStart(lock)
    \/ \E p \in {1, 2} : RaceStep(p)

SpecRace == Init /\ [][NextRace]_vars

(***************************************************************************)
(* The raw diagnostic read: the first call after power-up, over every      *)
(* triple of X and of Y responses                                          *)
(***************************************************************************)
NextRaw ==
    \E z \in ZPairs, tx \in RawTripleInputs, ty \in RawTripleInputs :
        nops = 0 /\ XPT2046_ReadRaw(z[1], z[2], tx, ty)

SpecRaw == Init /\ [][NextRaw]_vars

(***************************************************************************)
(* The median filter on every batch of 7 samples over three values         *)
(***************************************************************************)
NextMedian ==
    \E data \in [0..(XPT2046_READ_SAMPLES - 1) -> MedianValues] :
        MedianCall(data)

SpecMedian == Init /\ [][NextMedian]_vars

(***************************************************************************)
(* The median filter on every batch of 2, 4 or 6 samples over three values *)
(***************************************************************************)
EvenSizes == {n \in 1..XPT2046_READ_SAMPLES : n % 2 = 0}

NextMedianEven ==
    \E size \in EvenSizes :
        \E data \in [0..(size - 1) -> MedianValues] :
            MedianCallSized(data, size)

SpecMedianEven == Init /\ [][NextMedianEven]_vars

(***************************************************************************)
(* A held touch on a noisy panel: one reliable batch or none, then batches *)
(* that fail the variance gate, call after call                            *)
(***************************************************************************)
NextNoise ==
    \/ nops = 0
       /\ XPT2046_Read(Resp(100), Resp(700), Flat(1320), Flat(1755))
    \/ nops < MaxNoiseOps
       /\ XPT2046_Read(Resp(100), Resp(700), OneOff(1320, 1720), Flat(1755))

SpecNoise == Init /\ [][NextNoise]_vars

(***************************************************************************)
(* One call of ST7789_DrawLine or ST7789_DrawRect, run step by step. The   *)
(* core runs the loop without pause, hence the fairness on its steps.      *)
(***************************************************************************)
\* lines of every octant, lines ending on column or row 65535
LineArgs ==
    {<<0, 0, 5, 3>>, <<5, 3, 0, 0>>, <<0, 0, 3, 5>>, <<3, 7, 3, 0>>,
     <<0, 0, 319, 239>>, <<10, 65535, 20, 65535>>, <<0, 0, 65535, 0>>}

\* the outlines drawn by the demo and the calibration screen, and outlines
\* of zero width or height
RectArgs ==
    {<<20, 20, 100, 80>>, <<10, 85, 200, 10>>, <<10, 85, 0, 10>>,
     <<0, 85, 0, 10>>, <<10, 0, 5, 0>>}

NextLine ==
    \/ \E a \in LineArgs : ST7789_DrawLine(a[1], a[2], a[3], a[4])
    \/ \E a \in RectArgs : ST7789_DrawRect(a[1], a[2], a[3], a[4])
    \/ DrawLineStep

SpecLine == Init /\ [][NextLine]_vars /\ WF_vars(DrawLineStep)

(***************************************************************************)
(* One call of ST7789_FillRect, over origins inside, on the edge of and    *)
(* outside the screen and extents from 0 to 65535                          *)
(***************************************************************************)
FillOrigins == {0, 10, 85, 239, 240, 319, 320, 65535}

FillExtents == {0, 1, 10, 20, 200, 240, 320, 65535}

NextFill ==
    \E x \in FillOrigins, y \in FillOrigins, w \in FillExtents,
       h \in FillExtents :
        ST7789_FillRect(x, y, w, h)

SpecFill == Init /\ [][NextFill]_vars

(***************************************************************************)
(* Properties                                                              *)
(***************************************************************************)
\* the squared distance of the last read's calibrated point to the last
\* valid point it was compared with
LastDistanceSq ==
    (last.cal_x - last.pre_lvx) * (last.cal_x - last.pre_lvx)
    + (last.cal_y - last.pre_lvy) * (last.cal_y - last.pre_lvy)

\* C1: while the profile has always been valid and the screen size positive,
\* every point returned by read() lies in [0,width) x [0,height).
C1_OutputInScreen ==
    (cfg_ok /\ last.op = "read" /\ last.ret)
        => /\ 0 <= out_x /\ out_x < screen_width
           /\ 0 <= out_y /\ out_y < screen_height

\* C2: calibrate() rejects x_min >= x_max or y_min >= y_max, so the stored
\* profile satisfies x_min < x_max and y_min < y_max in every reachable state.
C2_ProfileAlwaysValid == ValidProfile(calibration)

\* C3: the calibration mapper never divides by a raw range that is zero or
\* negative.
C3_DivisionGuarded ==
    (last.op = "read" /\ last.mapped) => (last.div_x > 0 /\ last.div_y > 0)

\* C4: invalid_count never exceeds the invalid-sample ceiling.
C4_InvalidCountAtMostCeiling == invalid_count <= XPT2046_MAX_INVALID_SAMPLES

\* C5: whenever read() returns a point, invalid_count is 0 when the call
\* returns.
C5_AcceptedResetsInvalidCount ==
    (last.op = "read" /\ last.ret) => invalid_count = 0

\* C6: when the pressure gate reports no touch, read() returns no point and
\* leaves the controller fully reset (history empty and zeroed, no last
\* valid point, invalid_count = 0), whatever the state before the call.
C6_NoTouchResetsToIdle ==
    (last.op = "read" /\ ~last.pressed)
        => /\ ~last.ret
           /\ avg_count = 0
           /\ avg_buf_x = ZeroBuf
           /\ avg_buf_y = ZeroBuf
           /\ last_valid_x = -1
           /\ last_valid_y = -1
           /\ invalid_count = 0

\* a release seen while Rejecting: history filled, a last valid point and
\* invalid_count > 0 before the call
C6_Witness ==
    /\ last.op = "read" /\ ~last.pressed
    /\ last.pre_cnt > 0 /\ last.pre_lvx >= 0 /\ last.pre_lvy >= 0
    /\ last.pre_inv > 0

\* C7: from Tracking with invalid_count = 0, three consecutive rejected
\* reads under pressure leave the controller in Idle: history empty, no last
\* valid point, invalid_count = 0.
C7_ThreeRejectionsResetToIdle ==
    rej_run = 3
        => /\ avg_count = 0
           /\ last_valid_x = -1
           /\ last_valid_y = -1
           /\ invalid_count = 0

\* C8: the first sample accepted after the invalid-sample ceiling was
\* reached is returned as exactly its own calibrated coordinates and starts
\* a single-entry smoothing history.
C8_FreshAfterCeiling ==
    (last.op = "read" /\ last.ret /\ last.after_ceiling)
        => /\ avg_count = 1
           /\ out_x = last.cal_x
           /\ out_y = last.cal_y

\* the ceiling was reached by variance failures, a later sample is accepted,
\* and the buffer still holds a point accepted before the ceiling
C8_Witness ==
    /\ last.op = "read" /\ last.ret /\ last.after_ceiling /\ ~last.ceiling
    /\ avg_count = 1
    /\ avg_buf_x[1] # 0 /\ avg_buf_x[1] # avg_buf_x[0]

\* C9: in Tracking with a last valid point and invalid_count = 0, a reliable
\* calibrated point is accepted iff its squared distance to the last valid
\* point is at most 80^2 = 6400 (6400 accepted, 6401 rejected).
C9_JumpBoundary ==
    (/\ last.op = "read" /\ last.reliable /\ ~halted
     /\ last.pre_lvx >= 0 /\ last.pre_lvy >= 0 /\ last.pre_inv = 0)
        => (last.ret <=>
              LastDistanceSq <= XPT2046_JUMP_THRESHOLD * XPT2046_JUMP_THRESHOLD)

\* last valid point (100,100), new point (180,101): squared distance 6401,
\* rejected
C9_Witness ==
    /\ last.op = "read" /\ last.reliable /\ ~halted /\ last.pre_inv = 0
    /\ last.pre_lvx = 100 /\ last.pre_lvy = 100
    /\ last.cal_x = 180 /\ last.cal_y = 101
    /\ LastDistanceSq = 6401
    /\ ~last.ret

C11_PressureGate ==
    (last.op \in {"is_touched", "read", "read_raw"})
        => /\ last.pressed <=> (last.z1 >= 50 /\ last.z2 - last.z1 > 500)
           /\ (last.op = "is_touched" => (last.ret <=> last.pressed))
           /\ (~last.pressed => ~last.ret)

\* plates (100,150): read() returns no point
C11_Witness ==
    /\ last.op = "read" /\ last.z1 = 100 /\ last.z2 = 150
    /\ ~last.pressed /\ ~last.ret

\* C12: from Idle, one read() with plates (100,700) and a full batch of
\* identical samples (160,215) under the default profile returns (0,0), on
\* the power-up screen size and on the 240x320 screen.
C12_ProfileMinimumReadsOrigin ==
    (/\ last.op = "read"
     /\ last.pre_cnt = 0 /\ last.pre_lvx = -1 /\ last.pre_lvy = -1
     /\ last.pre_inv = 0
     /\ last.z1 = 100 /\ last.z2 = 700
     /\ last.med_x = XPT2046_X_MIN /\ last.med_y = XPT2046_Y_MIN
     /\ last.var_x = 0 /\ last.var_y = 0
     /\ calibration = [x_min |-> XPT2046_X_MIN, y_min |-> XPT2046_Y_MIN,
                       x_max |-> XPT2046_X_MAX, y_max |-> XPT2046_Y_MAX]
     /\ <<screen_width, screen_height>>
            \in {<<ST7789_WIDTH, ST7789_HEIGHT>>, <<240, 320>>})
        => (last.ret /\ out_x = 0 /\ out_y = 0)

\* the end-to-end example: screen 240x320, raw (160,215), plates (100,700)
C12_Witness ==
    /\ last.op = "read" /\ last.ret
    /\ last.pre_cnt = 0 /\ last.pre_lvx = -1 /\ last.pre_inv = 0
    /\ last.z1 = 100 /\ last.z2 = 700
    /\ last.med_x = 160 /\ last.med_y = 215
    /\ calibration.x_min = 160 /\ calibration.x_max = 3870
    /\ calibration.y_min = 215 /\ calibration.y_max = 3910
    /\ screen_width = 240 /\ screen_height = 320
    /\ out_x = 0 /\ out_y = 0

\* C13: with no swap and no inversion, for a valid profile and a positive
\* screen size the mapper sends (x_min, y_min) to (0,0) and (x_max, y_max)
\* to (width-1, height-1).
C13_CornersMapToCorners ==
    (/\ last.op = "read" /\ last.mapped /\ ~halted
     /\ ValidProfile(calibration)
     /\ screen_width > 0 /\ screen_height > 0)
        => /\ (last.med_x = calibration.x_min /\ last.med_y = calibration.y_min)
                => (last.cal_x = 0 /\ last.cal_y = 0)
           /\ (last.med_x = calibration.x_max /\ last.med_y = calibration.y_max)
                => (last.cal_x = screen_width - 1
                    /\ last.cal_y = screen_height - 1)

\* the same statement restricted to screen sizes an int16_t can hold
C13_CornersMapToCornersInt16Screen ==
    (screen_width <= 32767 /\ screen_height <= 32767)
        => C13_CornersMapToCorners

\* the decoded readings of a batch of responses
Readings(resp) == [i \in DOMAIN resp |-> Sample12(resp[i])]

\* the k-th smallest element of a batch, by rank
RankSelect(data, k) ==
    CHOOSE v \in {data[i] : i \in DOMAIN data} :
        /\ Cardinality({i \in DOMAIN data : data[i] < v}) <= k - 1
        /\ Cardinality({i \in DOMAIN data : data[i] <= v}) >= k

RECURSIVE SumSq(_, _, _)
SumSq(data, center, n) ==
    IF n = 0 THEN 0
    ELSE SumSq(data, center, n - 1)
         + (data[n - 1] - center) * (data[n - 1] - center)

\* population variance of a batch around its median: sum of squared
\* differences divided by n
PopVariance(resp) ==
    LET data == Readings(resp)
    IN  SumSq(data, RankSelect(data, 4), XPT2046_READ_SAMPLES)
        \div XPT2046_READ_SAMPLES

\* all samples of the batch are equal
IsFlat(resp) == \A i \in DOMAIN resp : resp[i] = resp[0]

\* C14: a batch whose population variance exceeds the ceiling (10000) on
\* either axis is not accepted: read() returns no point.
C14_HighVarianceRejected ==
    (/\ last.op = "read" /\ last.pressed
     /\ (PopVariance(last.xresp) > VARIANCE_CEILING
         \/ PopVariance(last.yresp) > VARIANCE_CEILING))
        => ~last.ret

\* C15: a batch in which all X samples are equal and all Y samples are equal
\* passes the variance gate, for every 12-bit sample value.
C15_FlatBatchPasses ==
    (/\ last.op = "read" /\ last.pressed
     /\ IsFlat(last.xresp) /\ IsFlat(last.yresp))
        => (last.reliable /\ last.ret)

\* a flat batch at the top of the 12-bit range is accepted
C15_Witness ==
    /\ last.op = "read" /\ last.pressed /\ last.reliable /\ last.ret
    /\ IsFlat(last.xresp) /\ IsFlat(last.yresp)
    /\ last.med_x = 4095 /\ last.med_y = 1755

\* the batch with positions i and j exchanged
SwapSamples(data, i, j) == [data EXCEPT ![i] = data[j], ![j] = data[i]]

\* C16: the median filter returns the 4th smallest of the 7 samples, the
\* result is the same for every permutation of the batch (every exchange of
\* two positions), and replacing one sample by an extreme value keeps the
\* result between the minimum and the maximum of the other six.
C16_MedianFilter ==
    (last.op = "median_filter")
        => LET data == last.data
               idx  == DOMAIN data
           IN  /\ last.result = RankSelect(data, 4)
               /\ \A i \in idx, j \in idx :
                     median_filter(SwapSamples(data, i, j),
                                   XPT2046_READ_SAMPLES) = last.result
               /\ \A i \in idx, e \in MedianExtremes :
                     LET r == median_filter([data EXCEPT ![i] = e],
                                            XPT2046_READ_SAMPLES)
                         others == {data[k] : k \in idx \ {i}}
                     IN  /\ \E lo \in others : lo <= r
                         /\ \E hi \in others : r <= hi

\* an unsorted batch with three different values whose median is the middle
\* value
C16_Witness ==
    /\ last.op = "median_filter"
    /\ last.data[0] = 2001 /\ last.data[1] = 100 /\ last.data[6] = 2000
    /\ Cardinality({i \in DOMAIN last.data : last.data[i] = 2000}) = 1
    /\ Cardinality({i \in DOMAIN last.data : last.data[i] = 100}) = 3
    /\ last.result = 2000

\* C17: the number of filled history entries stays within 0..capacity, and
\* every computed moving average divides by the currently filled count,
\* which is at least 1.
C17_CountBoundedDivisorIsCount ==
    /\ avg_count \in 0..XPT2046_AVG_SAMPLES
    /\ (last.op = "read" /\ last.ret)
          => (last.avg_div = avg_count /\ last.avg_div >= 1)

\* a point pushed during warm-up and a point pushed into a full history
C17_Witness ==
    /\ last.op = "read" /\ last.ret
    /\ last.pre_cnt = XPT2046_AVG_SAMPLES
    /\ avg_count = XPT2046_AVG_SAMPLES
    /\ last.avg_div = XPT2046_AVG_SAMPLES

\* the last k points of a sequence
LastPoints(pts, k) == SubSeq(pts, Len(pts) - k + 1, Len(pts))

RECURSIVE SumAxis(_, _, _)
SumAxis(pts, axis, n) ==
    IF n = 0 THEN 0 ELSE SumAxis(pts, axis, n - 1) + pts[n][axis]

\* C18: each returned point is, per axis, the truncated mean of the last
\* min(n, 10) calibrated points accepted since the most recent reset of the
\* history (n = number accepted since that reset).
C18_OutputIsWindowMean ==
    (last.op = "read" /\ last.ret)
        => LET n   == Len(accepted)
               k   == IF n < XPT2046_AVG_SAMPLES THEN n ELSE XPT2046_AVG_SAMPLES
               pts == LastPoints(accepted, k)
           IN  /\ n >= 1
               /\ out_x = TruncDiv(SumAxis(pts, 1, k), k)
               /\ out_y = TruncDiv(SumAxis(pts, 2, k), k)

\* the 11th accepted point evicts the first: the first was at pixel 180, the
\* ten kept ones at pixel 100
C18_Witness ==
    /\ last.op = "read" /\ last.ret
    /\ Len(accepted) = XPT2046_AVG_SAMPLES + 1
    /\ accepted[1][1] = 180
    /\ \A i \in 2..Len(accepted) : accepted[i][1] = 100
    /\ out_x = 100

\* C19: read() returns a point only if the pressure gate and the variance
\* gate both passed in that call; a call that returns no point returns the
\* same value (false) in every case and leaves the caller's coordinates
\* unmodified.
C19_PointOnlyThroughGates ==
    (last.op = "read")
        => /\ last.ret => (last.pressed /\ last.reliable)
           /\ ~last.ret => (out_x = last.pre_out_x /\ out_y = last.pre_out_y)

\* a jump rejection after a returned point: the caller still holds the
\* previous point
C19_Witness ==
    /\ last.op = "read" /\ ~last.ret /\ last.pressed /\ last.reliable
    /\ last.jump
    /\ out_x = 100 /\ last.pre_out_x = 100
    /\ last.cal_x # 100

\* C20: XPT2046_IsTouched and XPT2046_ReadRaw leave the smoothing history,
\* the last valid point, invalid_count, the calibration profile and the
\* screen size unchanged.
C20_ProbesLeaveFilterAlone ==
    [][(last'.op \in {"is_touched", "read_raw"})
          => UNCHANGED <<filter_vars, config_vars>>]_vars

\* a probe that saw no touch, made while the filter holds history
C20_Witness ==
    /\ last.op \in {"is_touched", "read_raw"}
    /\ ~last.ret
    /\ avg_count > 0 /\ last_valid_x >= 0

\* C21: XPT2046_ReadRaw returns no value when the pressure gate fails;
\* otherwise it returns, per axis, the truncated mean of the three raw samples
\* it read, with no calibration, clamping or smoothing.
C21_ReadRawIsThreeSampleMean ==
    (last.op = "read_raw")
        => LET xs == Readings(last.xresp)
               ys == Readings(last.yresp)
           IN  /\ last.ret <=> (last.z1 >= Z1_MIN
                                /\ last.z2 - last.z1 > XPT2046_TOUCH_THRESHOLD)
               /\ last.ret => /\ last.raw_x = TruncDiv(xs[0] + xs[1] + xs[2], 3)
                              /\ last.raw_y = TruncDiv(ys[0] + ys[1] + ys[2], 3)

\* a raw read whose mean is truncated (0 + 1 + 4095 = 4096, 4096 / 3 = 1365
\* remainder 1) and lies above the calibrated range
C21_Witness ==
    /\ last.op = "read_raw" /\ last.ret
    /\ last.xresp[0] = Resp(0) /\ last.xresp[1] = Resp(1)
    /\ last.xresp[2] = Resp(4095)
    /\ last.raw_x = 1365
    /\ last.raw_y = 4095

\* the state XPT2046_Init must leave: history empty and zeroed, no last valid
\* point, no invalid samples counted
IdleFilter ==
    /\ avg_count = 0
    /\ avg_buf_x = ZeroBuf /\ avg_buf_y = ZeroBuf
    /\ last_valid_x = -1 /\ last_valid_y = -1
    /\ invalid_count = 0

\* C25: init(), called from any reachable state, leaves the controller Idle
\* (history empty and zeroed, no last valid point, invalid_count = 0), and
\* the first read() after it is a fresh touch-down: a pressed, reliable batch
\* is returned as its calibrated point, without jump rejection, as the only
\* entry of the history.
C25_InitLeavesIdle ==
    /\ [](last.op = "init" => IdleFilter)
    /\ [][(/\ last.op = "init" /\ last'.op = "read"
           /\ last'.pressed /\ last'.reliable /\ ~halted')
             => (/\ last'.ret /\ ~last'.jump
                 /\ out_x' = last'.cal_x /\ out_y' = last'.cal_y
                 /\ avg_count' = 1
                 /\ last_valid_x' = last'.cal_x
                 /\ last_valid_y' = last'.cal_y)]_vars

\* init() called while a touch was being rejected for a jump
C25_Witness ==
    /\ last.op = "init"
    /\ IdleFilter
    /\ out_x = 100
    /\ jump_run = 1

\* C26: immediately after every init() the calibration profile holds the
\* default bounds, whatever calibrate() calls preceded it.
C26_InitRestoresDefaultProfile ==
    (last.op = "init")
        => calibration = [x_min |-> XPT2046_X_MIN, y_min |-> XPT2046_Y_MIN,
                          x_max |-> XPT2046_X_MAX, y_max |-> XPT2046_Y_MAX]

\* C29: every decoded X, Y, Z1 or Z2 sample is a 12-bit magnitude in 0..4095.
C29_SamplesAreTwelveBit ==
    (last.op \in {"read", "read_raw", "is_touched"})
        => /\ last.z1 \in 0..4095
           /\ last.z2 \in 0..4095
           /\ \A i \in DOMAIN last.xresp : Sample12(last.xresp[i]) \in 0..4095
           /\ \A i \in DOMAIN last.yresp : Sample12(last.yresp[i]) \in 0..4095

\* C30: for an even-length batch the median filter returns the lower of the
\* two middle elements of the sorted samples.
C30_EvenLengthLowerMiddle ==
    (last.op = "median_filter" /\ last.size % 2 = 0)
        => last.result = RankSelect(last.data, last.size \div 2)

\* an exchange of the last call failed / never returned
BusError == \E i \in 1..Len(bus) : bus[i].status = "error"

BusStalled == \E i \in 1..Len(bus) : bus[i].status = "stall"

\* the commands of the last call, in order
BusCmds == [i \in 1..Len(bus) |-> bus[i].cmd]

\* C22: a failed exchange is fatal to the current read(): the call returns no
\* point, and the failed exchange's data is not used as a sample, so the
\* filter state is what it was before the call.
C22_TransportFailureIsFatal ==
    (last.op = "read" /\ BusError)
        => /\ ~last.ret
           /\ avg_count = last.pre_cnt
           /\ invalid_count = last.pre_inv
           /\ last_valid_x = last.pre_lvx
           /\ last_valid_y = last.pre_lvy

\* C24: in the build without an IRQ line, a read() whose exchanges all return
\* runs to completion, after exactly 2 exchanges when the pressure gate fails
\* and 2 + 2 * 7 = 16 otherwise; a read() with an exchange that never returns
\* does not return.
C24_ReadCompletes ==
    (last.op = "read" /\ ~irq_defined)
        => /\ ~BusStalled
                => /\ ~halted
                   /\ Len(bus) = IF last.pressed
                                 THEN 2 + 2 * XPT2046_READ_SAMPLES ELSE 2
           /\ BusStalled => halted

\* the full pass of one read(): Z1, Z2, then 7 times X, Y
FullPass ==
    <<CMD_Z1_READ, CMD_Z2_READ>>
    \o [k \in 1..(2 * XPT2046_READ_SAMPLES) |->
           IF k % 2 = 1 THEN CMD_X_READ ELSE CMD_Y_READ]

\* C27: within one read() the exchanges are a prefix of the pass Z1, Z2,
\* (X, Y) x 7; a call whose exchanges all return makes the whole pass when
\* the gate passed and, having sampled the plates, only Z1, Z2 when it
\* failed; no X or Y exchange is issued in a call whose gate failed.
C27_ExchangeOrder ==
    (last.op = "read")
        => /\ Len(bus) <= Len(FullPass)
           /\ BusCmds = SubSeq(FullPass, 1, Len(bus))
           /\ (last.pressed /\ ~BusStalled) => BusCmds = FullPass
           /\ ~last.pressed => Len(bus) <= 2
           /\ (~last.pressed /\ ~BusStalled /\ ~GateBlocked(irq_defined, irq_low))
                 => BusCmds = <<CMD_Z1_READ, CMD_Z2_READ>>

\* a read() that returned a point after the 16 exchanges of a full pass
C27_Witness ==
    /\ last.op = "read" /\ last.ret
    /\ Len(bus) = 16
    /\ bus[1].cmd = CMD_Z1_READ /\ bus[2].cmd = CMD_Z2_READ
    /\ bus[3].cmd = CMD_X_READ /\ bus[16].cmd = CMD_Y_READ

\* C28: when an IRQ line is configured and it is not asserted (not low),
\* read(), read_raw() and is_touched() see the gate fail and make no
\* exchange.
C28_IrqHighNoBusTraffic ==
    (/\ last.op \in {"read", "read_raw", "is_touched"}
     /\ irq_defined /\ ~irq_low)
        => (bus = <<>> /\ ~last.ret /\ ~last.pressed)

\* a read() stopped by the IRQ line while a touch was tracked: no exchange,
\* the history cleared
C28_Witness ==
    /\ last.op = "read" /\ irq_defined /\ ~irq_low
    /\ bus = <<>> /\ ~last.ret
    /\ last.pre_cnt = 1 /\ avg_count = 0

\* what the caller of a read() gets
CallResult(ret, x, y) == IF ret THEN <<x, y>> ELSE <<>>

\* the filter state and the two results after the invocations ran one after
\* the other, first then second, from the filter state st
SerialOutcome(st, first, second) ==
    LET Run(s, p) ==
            ReadResult(s, calibration, screen_width, screen_height,
                       RaceInputs[p].z1, RaceInputs[p].z2, RaceInputs[p].x,
                       RaceInputs[p].y, 0)
        r1 == Run(st, first)
        r2 == Run(r1.st, second)
    IN  [st |-> r2.st,
         res |-> [p \in {first, second} |->
                     IF p = first THEN CallResult(r1.ret, r1.x, r1.y)
                     ELSE CallResult(r2.ret, r2.x, r2.y)]]

\* both overlapping invocations have returned
RaceDone ==
    /\ calls.phase = "racing"
    /\ \A p \in {1, 2} : calls.inv[p].pc = "done"

RaceOutcome ==
    [st |-> FilterState,
     res |-> [p \in {1, 2} |-> CallResult(calls.inv[p].ret, calls.inv[p].x,
                                          calls.inv[p].y)]]

IsSerial ==
    RaceOutcome \in {SerialOutcome(calls.st0, 1, 2),
                     SerialOutcome(calls.st0, 2, 1)}

UnreliableRead(r) ==
    r.op = "read" /\ r.pressed /\ ~r.reliable

\* C31: a variance-gate failure that leaves invalid_count below the ceiling
\* returns no point, adds exactly 1 to invalid_count and leaves the
\* smoothing history and the last valid point as they were.
C31_UnreliableIsLocal ==
    [][(UnreliableRead(last') /\ ~halted'
        /\ ~CeilingReached(invalid_count'))
       => /\ ~last'.ret
          /\ invalid_count' = invalid_count + 1
          /\ UNCHANGED <<avg_buf_x, avg_buf_y, avg_count, last_valid_x,
                         last_valid_y>>]_vars
(***************************************************************************)
(* The first accepted sample of a touch                                    *)
(***************************************************************************)
\* a read() that returned, entered with no last valid point and with both
\* the pressure gate and the variance gate passing
FirstReliableRead ==
    /\ last.op = "read" /\ ~halted
    /\ last.pre_lvx = -1 /\ last.pre_lvy = -1
    /\ last.pressed /\ last.reliable

\* C32: from Idle the first read() whose gates pass is accepted with no jump
\* check: it returns exactly the calibrated point, the history holds one
\* entry and the calibrated point is the new reference.
C32_FirstSampleAccepted ==
    FirstReliableRead
    => /\ last.ret /\ ~last.jump
       /\ out_x = last.cal_x /\ out_y = last.cal_y
       /\ avg_count = 1
       /\ last_valid_x = last.cal_x /\ last_valid_y = last.cal_y

\* a first sample at the far edge of the screen, taken after earlier calls
C32_Witness ==
    /\ FirstReliableRead /\ nops > 1
    /\ last.cal_x = ST7789_WIDTH - 1
    /\ out_x = ST7789_WIDTH - 1
(***************************************************************************)
(* The smoother against an overwrite-oldest ring buffer                    *)
(***************************************************************************)
\* a ring buffer of XPT2046_AVG_SAMPLES slots: head is the slot the next
\* push writes, count the number of slots in use
RingEmpty ==
    [slot_x |-> ZeroBuf, slot_y |-> ZeroBuf, head |-> 0, count |-> 0]

\* a push overwrites the oldest slot once the ring is full
RingPush(ring, x, y) ==
    [slot_x |-> [ring.slot_x EXCEPT ![ring.head] = x],
     slot_y |-> [ring.slot_y EXCEPT ![ring.head] = y],
     head   |-> (ring.head + 1) % XPT2046_AVG_SAMPLES,
     count  |-> IF ring.count < XPT2046_AVG_SAMPLES
                THEN ring.count + 1 ELSE ring.count]

RECURSIVE RingSum(_, _)
RingSum(slots, n) == IF n = 0 THEN 0 ELSE RingSum(slots, n - 1) + slots[n - 1]

\* the smoothed point of the ring: the truncated mean of the slots in use
RingMean(ring) ==
    [x |-> ToInt16(TruncDiv(RingSum(ring.slot_x, ring.count), ring.count)),
     y |-> ToInt16(TruncDiv(RingSum(ring.slot_y, ring.count), ring.count))]

\* the ring after a reset followed by the pushes pts[1..n]
RECURSIVE RingAfter(_, _)
RingAfter(pts, n) ==
    IF n = 0 THEN RingEmpty
    ELSE RingPush(RingAfter(pts, n - 1), pts[n][1], pts[n][2])

\* C33: run side by side over the same pushes and resets, the shift-down
\* history of the driver and an overwrite-oldest ring buffer of the same
\* capacity return the same smoothed point at every push.
C33_ShiftDownEqualsRing ==
    (last.op = "read" /\ last.ret)
        => LET ring == RingAfter(accepted, Len(accepted))
           IN  /\ ring.count = avg_count
               /\ out_x = RingMean(ring).x
               /\ out_y = RingMean(ring).y

\* a push into a full history after the ring has wrapped: the ring has
\* overwritten its two oldest slots, one of which held a different point
C33_Witness ==
    /\ last.op = "read" /\ last.ret
    /\ Len(accepted) = XPT2046_AVG_SAMPLES + 2
    /\ accepted[1][1] # accepted[2][1]
    /\ RingAfter(accepted, Len(accepted)).head = 2
(***************************************************************************)
(* The first jump after an accepted point                                  *)
(***************************************************************************)
\* C34: if a read() returned a point P and the next read(), with the touch
\* held and a reliable batch, maps to a point farther than the jump
\* threshold from P, that next read() returns no point.
C34_FirstJumpRejected ==
    [][(/\ last.op = "read" /\ last.ret
        /\ last'.op = "read" /\ ~halted'
        /\ last'.pressed /\ last'.reliable
        /\ JumpDetected(DistanceSq([last_valid_x |-> out_x,
                                    last_valid_y |-> out_y],
                                   last'.cal_x, last'.cal_y)))
       => ~last'.ret]_vars
(***************************************************************************)
(* The last valid point at the return of the public operations             *)
(***************************************************************************)
\* the last valid point is the (-1, -1) sentinel
LastValidAbsent == last_valid_x = -1 /\ last_valid_y = -1

\* the last valid point is absent exactly when the history is empty
AbsentIffEmpty == LastValidAbsent <=> (avg_count = 0)

\* the last valid point is the point most recently returned by read()
LastValidIsLastReturned == last_valid_x = out_x /\ last_valid_y = out_y

LastValidInScreen ==
    /\ 0 <= last_valid_x /\ last_valid_x < screen_width
    /\ 0 <= last_valid_y /\ last_valid_y < screen_height

\* C35: at the return of every public operation, for a valid profile and a
\* positive screen size, the last valid point is absent exactly when the
\* smoothing history is empty, and when present it lies inside the screen
\* and equals the point most recently returned by read().
C35_LastValidConsistent ==
    (cfg_ok /\ ~halted /\ last.op # "none")
        => /\ AbsentIffEmpty
           /\ ~LastValidAbsent
                 => (LastValidInScreen /\ LastValidIsLastReturned)
(***************************************************************************)
(* What survives a reset of the filter state                               *)
(***************************************************************************)
\* a filter state that has never held a sample
CleanFilter ==
    [avg_buf_x |-> ZeroBuf, avg_buf_y |-> ZeroBuf, avg_count |-> 0,
     last_valid_x |-> -1, last_valid_y |-> -1, invalid_count |-> 0]

\* the smoother started on a clean filter and given the points pts[1..n]
RECURSIVE CleanReplay(_, _)
CleanReplay(pts, n) ==
    IF n = 0 THEN [st |-> CleanFilter, x |-> 0, y |-> 0, div |-> 0]
    ELSE XPT2046_Average(CleanReplay(pts, n - 1).st, pts[n][1], pts[n][2])

\* C36: after a reset of the filter state (release, init, or the
\* invalid-sample ceiling, also on the variance-failure path that leaves
\* the buffers as they are), a point returned by a later read() is what a
\* filter that never saw the samples before the reset returns for the
\* points accepted since the reset.
C36_ResetForgetsHistory ==
    (last.op = "read" /\ last.ret)
        => LET clean == CleanReplay(accepted, Len(accepted))
           IN  out_x = clean.x /\ out_y = clean.y

\* the first point returned after the variance-failure path hit the ceiling:
\* the buffer still holds a sample pushed before the reset
C36_Witness ==
    /\ last.op = "read" /\ last.ret
    /\ last.pre_inv >= XPT2046_MAX_INVALID_SAMPLES
    /\ last.pre_cnt = 0 /\ avg_count = 1
    /\ avg_buf_x[1] # 0
    /\ avg_buf_x[1] # out_x
(***************************************************************************)
(* Termination of ST7789_DrawLine                                          *)
(***************************************************************************)
\* C37: every ST7789_DrawLine call returns, whatever its 16-bit endpoints,
\* also the ones ST7789_DrawRect passes when w = 0 or h = 0: a drawing call
\* that was entered returns.
C37_DrawLineTerminates ==
    (calls.phase = "drawing") ~> (calls.phase = "returned")
(***************************************************************************)
(* The draw window and the pixel stream of ST7789_FillRect                 *)
(***************************************************************************)
\* the window the panel decodes from the CASET and RASET data bytes
PanelWindow(win) ==
    [x0 |-> win.caset[1] * 256 + win.caset[2] - ST7789_X_SHIFT,
     x1 |-> win.caset[3] * 256 + win.caset[4] - ST7789_X_SHIFT,
     y0 |-> win.raset[1] * 256 + win.raset[2] - ST7789_Y_SHIFT,
     y1 |-> win.raset[3] * 256 + win.raset[4] - ST7789_Y_SHIFT]

\* an extent clipped to the part of the screen that starts at start
Clipped(start, extent, size) ==
    IF extent < size - start THEN extent ELSE size - start

\* C38: every ST7789_FillRect(x, y, w, h) call either sends nothing or sets
\* a window with x0 <= x1 < ST7789_WIDTH and y0 <= y1 < ST7789_HEIGHT and
\* then streams exactly w' * h' pixels, w' and h' being w and h clipped to
\* the screen.
C38_FillRectWindowAndStream ==
    (last.op = "ST7789_FillRect" /\ last.sent)
        => LET win == PanelWindow(last.window)
           IN  /\ win.x0 <= win.x1 /\ win.x1 < ST7789_WIDTH
               /\ win.y0 <= win.y1 /\ win.y1 < ST7789_HEIGHT
               /\ last.blocks * FILL_BLOCK_PIXELS + last.singles
                     = Clipped(last.x, last.w, ST7789_WIDTH)
                       * Clipped(last.y, last.h, ST7789_HEIGHT)
====
